---------------------------- MODULE Spec2Model ----------------------------
(***************************************************************************)
(* A model of the GCP inventory tool (package gcp_vm_inventory): the       *)
(* ControlPlane adapter (GCPClient.run_gcloud_command and the legacy       *)
(* core.run_gcloud_command), the API gate (GCPClient.check_api_status,     *)
(* InventoryService.check_api_status), the two implemented collectors      *)
(* (VMInventory, BigQueryInventory) and the orchestrators that drive them  *)
(* (InventoryService.collect_all_inventory and cli.main).                  *)
(*                                                                         *)
(* The program is sequential.  Every external call (a gcloud subprocess, a *)
(* BigQuery SDK call, a prompt) is answered by the environment, which is   *)
(* free to answer each call differently: its answer is drawn with \E from  *)
(* a small set at the step that issues the call.                           *)
(***************************************************************************)
EXTENDS Integers, Sequences, FiniteSets, TLC

(***************************************************************************)
(* Bounds of the model.                                                    *)
(***************************************************************************)
\* Longest stdout / stderr (in tokens) handed to the pure functions.
MaxOutLen == 3
\* Most compute instances one listing query returns.
MaxVMs == 1
\* Most datasets one listing query returns.
MaxDatasets == 1
\* Most network interfaces, and most disks, of one compute instance.
MaxInterfaces == 2
MaxDisks == 2
MaxTables == 3
MaxRecords == 2

\* The projects the environment knows.
Projects == {"p1", "p2"}

\* Python's None where a project id is optional.
None == "None"

(***************************************************************************)
(* Text.  A stdout is a sequence of tokens: whitespace, a word, or one     *)
(* whole JSON document.  A stderr is a sequence of words.                  *)
(***************************************************************************)
Ws(s) == [k |-> "ws", v |-> <<s>>]
Word(s) == [k |-> "word", v |-> <<s>>]
Doc(value) == [k |-> "doc", v |-> <<value>>]

IsWs(t) == t.k = "ws"

\* str.strip(): the text without its leading and trailing whitespace.
Strip(s) ==
    LET solid == {i \in 1..Len(s) : ~IsWs(s[i])}
    IN  IF solid = {} THEN <<>>
        ELSE LET lo == CHOOSE i \in solid : \A j \in solid : i <= j
                 hi == CHOOSE i \in solid : \A j \in solid : j <= i
             IN  SubSeq(s, lo, hi)

\* `w in stderr`
Contains(stderr, w) == \E i \in 1..Len(stderr) : stderr[i] = w

(***************************************************************************)
(* Python values returned by the adapter.                                  *)
(***************************************************************************)
PyNone == [tag |-> "None", val |-> <<>>]
PyList(items) == [tag |-> "list", val |-> items]
PyDict(fields) == [tag |-> "dict", val |-> <<fields>>]
PyEmptyDict == [tag |-> "dict", val |-> <<>>]
PyStr(text) == [tag |-> "str", val |-> text]
\* An exception leaving the function.
Raised(exc) == [tag |-> "raise", val |-> <<exc>>]

IsRaised(v) == v.tag = "raise"

\* Python truthiness: None, [], {} and "" are falsy.
Truthy(v) == v.tag \in {"list", "dict", "str"} /\ v.val # <<>>

\* json.loads: surrounding whitespace is allowed, the rest must be exactly
\* one document.
json_loads(stdout) ==
    LET t == Strip(stdout)
    IN  IF Len(t) = 1 /\ t[1].k = "doc" THEN t[1].v[1]
        ELSE Raised("JSONDecodeError")

\* A finished subprocess: its exit status and what it printed.  With
\* check=True a non-zero exit raises CalledProcessError.
Proc(rc, stdout, stderr) == [rc |-> rc, stdout |-> stdout, stderr |-> stderr]
Failed(proc) == proc.rc # 0

(***************************************************************************)
(* ControlPlane adapter.                                                   *)
(***************************************************************************)
\* The legacy behaviour: json.loads outside any handler.
run_gcloud_command_unguarded(proc, check_json) ==
    IF Failed(proc) THEN PyNone
    ELSE IF check_json THEN json_loads(proc.stdout)
    ELSE PyStr(proc.stdout)

\* GCPClient.run_gcloud_command
run_gcloud_command(proc, check_json) ==
    IF Failed(proc) THEN PyNone
    ELSE IF proc.stdout = <<>> \/ Strip(proc.stdout) = <<>>
         THEN (IF check_json THEN PyList(<<>>) ELSE PyStr(<<>>))
    ELSE IF check_json
         THEN (IF IsRaised(json_loads(proc.stdout)) THEN PyList(<<>>)
               ELSE json_loads(proc.stdout))
    ELSE PyStr(proc.stdout)

\* core.run_gcloud_command; auth is the outcome of the activation it runs
\* first when a service account key is given ("none": no key given).
core_run_gcloud_command(proc, check_json, auth) ==
    IF auth = "failed" THEN PyNone
    ELSE IF Failed(proc) THEN PyNone
    ELSE IF check_json THEN json_loads(proc.stdout)
    ELSE PyStr(proc.stdout)

(***************************************************************************)
(* API gate: the classification of one capability query.                   *)
(***************************************************************************)
Statuses == {"OK", "MISSING", "CREDENTIAL_ISSUE", "ERROR"}

\* A classification that searches the output for the word.
check_api_status_substring(project, api_id, proc) ==
    IF Failed(proc)
    THEN (IF Contains(proc.stderr, "PERMISSION_DENIED") THEN "CREDENTIAL_ISSUE"
          ELSE "ERROR")
    ELSE IF \E i \in 1..Len(proc.stdout) : proc.stdout[i] = Word("ENABLED")
         THEN "OK" ELSE "MISSING"

\* GCPClient.check_api_status
check_api_status(project, api_id, proc) ==
    IF Failed(proc)
    THEN (IF Contains(proc.stderr, "PERMISSION_DENIED") THEN "CREDENTIAL_ISSUE"
          ELSE "ERROR")
    ELSE IF Strip(proc.stdout) = <<Word("ENABLED")>> THEN "OK" ELSE "MISSING"

\* api_checker.check_required_apis: the status it stores for its one
\* required API, compute.googleapis.com.
check_required_apis(project, proc) ==
    IF Failed(proc)
    THEN (IF Contains(proc.stderr, "PERMISSION_DENIED") THEN "CREDENTIAL_ISSUE"
          ELSE "ERROR")
    ELSE IF Strip(proc.stdout) = <<Word("ENABLED")>> THEN "OK" ELSE "MISSING"


(***************************************************************************)
(* Program state.                                                          *)
(***************************************************************************)
VARIABLES
    entry,               \* the entry point this run executes
    service_account_key, \* the key file the run was given (None: ambient)
    gcloud_installed,    \* whether shutil.which finds gcloud on this host
    activations,         \* the activate-service-account commands run so far
    authenticated,       \* how the last activation ended
    project_id,          \* InventoryService.project_id (None: discover all)
    skip_disabled_apis,  \* the skip_disabled_apis argument / flag
    check_apis_only,     \* cli: --check-apis-only
    format,              \* cli: --format
    pc,                  \* position of the single flow of control
    i,                   \* index of the project the running loop is at
    projects,            \* the running function's resolved project ids
    api_status,          \* the APIStatus list check_api_status builds
    vms,                 \* all_vm_data
    bigquery_datasets,   \* all_bq_data
    inventory,           \* the InventoryResult collect_all_inventory returns
    all_apis_ok,         \* cli: what display_api_status returned
    proceed,             \* cli: the answer to the prompt, lowered (None: not asked)
    exported,            \* cli: the export calls issued, with their arguments
    fs,                  \* the directories and files of the filesystem
    client_project_id,   \* GCPClient.project_id
    gcp_bq_client,       \* GCPClient._bq_client: the project it is bound to
    inv_bq_client,       \* BigQueryInventory._bq_client
    calls,               \* the ControlPlane queries issued so far, counted
    gate_log,            \* the capability queries issued, in order, with their answers
    world,               \* the answers of a mocked ControlPlane, when they are fixed
    first_run,           \* what the first of two runs on one instance returned
    pair_log,            \* what the collector logged last per kind and project
    list_outcome,        \* how the last listing query per kind and project ended
    listed_ids,          \* the resource ids that listing returned, in its order
    u_arg,               \* unit runs: the function's input
    u_ret                \* unit runs: what it returned

vars == <<entry, service_account_key, gcloud_installed, activations,
          authenticated, proceed, project_id, skip_disabled_apis, check_apis_only, format, pc, i,
          projects, api_status, vms, bigquery_datasets, inventory,
          all_apis_ok, exported, fs, client_project_id, gcp_bq_client,
          inv_bq_client, calls, gate_log, world, first_run, pair_log,
          list_outcome, listed_ids, u_arg, u_ret>>

Kinds == {"compute", "bigquery"}

\* Runs that execute one component alone get the environment's answers in
\* full; runs of a whole orchestration draw them from the smaller sets.
Alone == entry \in {"gate", "vm", "bq"}

(***************************************************************************)
(* Project discovery.                                                      *)
(***************************************************************************)
\* The non-empty project lists discovery can return: no id twice.
ProjectSeqs ==
    IF Alone
    THEN {<<p>> : p \in Projects} \cup
         {<<p, q>> : <<p, q>> \in {pq \in Projects \X Projects : pq[1] # pq[2]}}
    ELSE {<<"p1">>, <<"p1", "p2">>}

ProjectDict(p) == [projectId |-> p]

\* What `gcloud projects list --format=json` can answer.
DiscoveryProcs ==
    {Proc(1, <<>>, <<"ERROR:">>),
     Proc(0, <<>>, <<>>),
     Proc(0, <<Word("junk")>>, <<>>)} \cup
    {Proc(0, <<Doc(PyList([k \in 1..Len(ps) |-> ProjectDict(ps[k])])), Ws("\n")>>, <<>>) :
        ps \in ProjectSeqs}

\* GCPClient.get_projects
get_projects(proc) ==
    LET result == run_gcloud_command(proc, TRUE)
    IN  IF IsRaised(result) THEN result
        ELSE IF Truthy(result) THEN result ELSE PyList(<<>>)

\* [p.get('projectId') for p in projects_data]
ProjectIds(data) == [k \in 1..Len(data.val) |-> data.val[k].projectId]

(***************************************************************************)
(* API gate: InventoryService.check_api_status.                            *)
(***************************************************************************)
\* required_apis, in the order the dictionary lists them.
required_apis ==
    <<"compute.googleapis.com", "sqladmin.googleapis.com",
      "bigquery.googleapis.com", "container.googleapis.com">>

api_name(api_id) ==
    CASE api_id = "compute.googleapis.com" -> "Compute Engine API"
      [] api_id = "sqladmin.googleapis.com" -> "Cloud SQL Admin API"
      [] api_id = "bigquery.googleapis.com" -> "BigQuery API"
      [] api_id = "container.googleapis.com" -> "Kubernetes Engine API"

APIStatus(p, api_id, status) ==
    [project_id |-> p, api_id |-> api_id, api_name |-> api_name(api_id),
     status |-> status]

ProcEnabled == Proc(0, <<Word("ENABLED"), Ws("\n")>>, <<>>)
ProcDisabled == Proc(0, <<Word("DISABLED"), Ws("\n")>>, <<>>)
ProcDenied == Proc(1, <<>>, <<"ERROR:", "PERMISSION_DENIED">>)
ProcError == Proc(1, <<>>, <<"ERROR:">>)

\* What `gcloud services list --filter config.name:<api>` can answer.
GateProcs(api_id) ==
    IF Alone THEN {ProcEnabled, ProcDisabled, ProcDenied, ProcError}
    ELSE CASE api_id = "compute.googleapis.com" -> {ProcEnabled, ProcDenied}
           [] api_id = "bigquery.googleapis.com" -> {ProcEnabled, ProcDisabled}
           [] OTHER -> {ProcEnabled}

GateAnswers ==
    {a \in [1..Len(required_apis) -> {ProcEnabled, ProcDisabled, ProcDenied, ProcError}] :
        \A k \in 1..Len(required_apis) : a[k] \in GateProcs(required_apis[k])}

\* A loop body that records nothing for a query that failed.
check_project_apis_dropping(p, answers) ==
    LET RECURSIVE build(_)
        build(k) ==
            IF k = 0 THEN <<>>
            ELSE IF Failed(answers[k]) THEN build(k - 1)
            ELSE Append(build(k - 1),
                        APIStatus(p, required_apis[k],
                                  check_api_status(p, required_apis[k], answers[k])))
    IN  build(Len(required_apis))

\* A loop body that gives up on the project at its first failed query.
check_project_apis_stopping(p, answers) ==
    LET failures == {k \in 1..Len(required_apis) : Failed(answers[k])}
        last == IF failures = {} THEN Len(required_apis)
                ELSE CHOOSE k \in failures : \A j \in failures : k <= j
    IN  [k \in 1..last |->
            APIStatus(p, required_apis[k],
                      check_api_status(p, required_apis[k], answers[k]))]

\* The inner loop of check_api_status: one query and one APIStatus per
\* required API, in order.
check_project_apis(p, answers) ==
    [k \in 1..Len(required_apis) |->
        APIStatus(p, required_apis[k],
                  check_api_status(p, required_apis[k], answers[k]))]

\* The queries that loop issues: client.check_api_status(proj_id, api_id)
\* once per required API, each with the answer it got.
check_project_queries(p, answers) ==
    [k \in 1..Len(required_apis) |->
        [project_id |-> p, api_id |-> required_apis[k], proc |-> answers[k]]]

\* The argument cli.main passes to service.check_api_status.
cli_gate_argument(service_project) == None

\* The argument collect_all_inventory passes to self.check_api_status.
all_gate_argument(service_project) == service_project

GateArgument ==
    CASE entry = "cli" -> cli_gate_argument(project_id)
      [] entry = "all" -> all_gate_argument(project_id)
      [] OTHER -> project_id

AfterGate ==
    CASE entry = "cli" -> "cli_display"
      [] entry = "all" -> "vm"
      [] OTHER -> "done"

GateFrame ==
    UNCHANGED <<world, first_run, entry, service_account_key,
                gcloud_installed, activations, authenticated, proceed,
                project_id, skip_disabled_apis, check_apis_only, format, vms,
                bigquery_datasets, inventory, all_apis_ok, exported, fs,
                client_project_id, gcp_bq_client, inv_bq_client, pair_log,
                list_outcome, listed_ids, u_arg, u_ret>>

\* check_api_status with a project id: the set is that one id.
GateExplicit ==
    /\ pc = "gate"
    /\ GateArgument # None
    /\ projects' = <<GateArgument>>
    /\ api_status' = <<>>
    /\ i' = 1
    /\ pc' = "gate_loop"
    /\ UNCHANGED <<calls, gate_log>>
    /\ GateFrame

\* check_api_status without a project id: one discovery query.
GateDiscover ==
    /\ pc = "gate"
    /\ gcloud_installed
    /\ GateArgument = None
    /\ \E proc \in DiscoveryProcs :
        \E projects_data \in {get_projects(proc)} :
            /\ calls' = [calls EXCEPT !.discovery = @ + 1]
            /\ api_status' = <<>>
            /\ IF IsRaised(projects_data)
               THEN /\ pc' = "raised"
                    /\ UNCHANGED <<projects, i>>
               ELSE IF ~Truthy(projects_data)
               THEN /\ projects' = <<>>
                    /\ i' = 0
                    /\ pc' = AfterGate
               ELSE /\ projects' = ProjectIds(projects_data)
                    /\ i' = 1
                    /\ pc' = "gate_loop"
    /\ UNCHANGED gate_log
    /\ GateFrame

\* One turn of `for proj_id in projects`: the four capability queries.
GateProject ==
    /\ pc = "gate_loop"
    /\ gcloud_installed
    /\ \E answers \in GateAnswers :
        /\ api_status' = api_status \o check_project_apis(projects[i], answers)
        /\ calls' = [calls EXCEPT !.gate[projects[i]] = @ + Len(required_apis)]
        /\ gate_log' = gate_log \o check_project_queries(projects[i], answers)
    /\ i' = i + 1
    /\ pc' = IF i = Len(projects) THEN AfterGate ELSE "gate_loop"
    /\ UNCHANGED projects
    /\ GateFrame

(***************************************************************************)
(* Compute instances: VMInventory.                                         *)
(* A text attribute is a sequence of tokens; "/" is a token of its own.    *)
(***************************************************************************)
NA == <<"N/A">>
Unknown == <<"unknown">>

\* dict.get(key, default)
Get(d, key, default) == IF key \in DOMAIN d THEN d[key] ELSE default

\* str.split('/'): the segments between the slashes, never an empty list.
RECURSIVE Split(_)
Split(s) ==
    IF \A k \in 1..Len(s) : s[k] # "/" THEN <<s>>
    ELSE LET cut == CHOOSE k \in 1..Len(s) :
                        s[k] = "/" /\ \A j \in 1..(k - 1) : s[j] # "/"
         IN  <<SubSeq(s, 1, cut - 1)>> \o Split(SubSeq(s, cut + 1, Len(s)))

\* The first segment instead of the last.
Head_of(parts) == parts[1]

Last(parts) == parts[Len(parts)]

MachineTypeInfo(cpu_count, memory_mb) ==
    [raised |-> FALSE, cpu_count |-> cpu_count, memory_mb |-> memory_mb]

\* An enrichment that lets a failed or empty query abort the extraction.
get_machine_type_info_aborting(project, zone, machine_type, proc) ==
    IF machine_type = Unknown THEN MachineTypeInfo(0, 0)
    ELSE LET result == run_gcloud_command(proc, TRUE)
         IN  IF Truthy(result) /\ result.tag = "dict"
             THEN MachineTypeInfo(Get(result.val[1], "guestCpus", 0),
                                  Get(result.val[1], "memoryMb", 0))
             ELSE [raised |-> TRUE, cpu_count |-> 0, memory_mb |-> 0]

\* VMInventory.get_machine_type_info; queried: whether it issued its query.
get_machine_type_info(project, zone, machine_type, proc) ==
    IF machine_type = Unknown THEN MachineTypeInfo(0, 0)
    ELSE LET result == run_gcloud_command(proc, TRUE)
         IN  IF IsRaised(result) THEN [raised |-> TRUE, cpu_count |-> 0, memory_mb |-> 0]
             ELSE IF Truthy(result)
             THEN (IF result.tag = "dict"
                   THEN MachineTypeInfo(Get(result.val[1], "guestCpus", 0),
                                        Get(result.val[1], "memoryMb", 0))
                   ELSE [raised |-> TRUE, cpu_count |-> 0, memory_mb |-> 0])
             ELSE MachineTypeInfo(0, 0)

\* An OS lookup that takes the first disk that carries a license.
get_os_info_any_disk(vm) ==
    LET disks == Get(vm, "disks", <<>>)
        licensed == {k \in 1..Len(disks) : Get(disks[k], "licenses", <<>>) # <<>>}
    IN  IF licensed = {} THEN NA
        ELSE Last(Split(disks[CHOOSE k \in licensed : \A j \in licensed : k <= j].licenses[1]))

\* VMInventory.get_os_info
get_os_info(vm) ==
    LET disks == Get(vm, "disks", <<>>)
        boots == {k \in 1..Len(disks) : Get(disks[k], "boot", FALSE)}
    IN  IF disks = <<>> THEN NA
        ELSE IF boots = {} THEN NA
        ELSE LET boot_disk == disks[CHOOSE k \in boots : \A j \in boots : k <= j]
                 licenses == Get(boot_disk, "licenses", <<>>)
             IN  IF licenses = <<>> THEN NA
                 ELSE IF Len(Split(licenses[1])) >= 2 THEN Last(Split(licenses[1]))
                 ELSE NA

\* VMInventory.get_external_ip
get_external_ip(vm) ==
    LET network_interfaces == Get(vm, "networkInterfaces", <<>>)
    IN  IF network_interfaces = <<>> THEN NA
        ELSE LET access_configs == Get(network_interfaces[1], "accessConfigs", <<>>)
             IN  IF access_configs = <<>> THEN NA
                 ELSE Get(access_configs[1], "natIP", NA)

\* An extraction that takes the project from the listing's record, which
\* names none.
extract_vm_info_by_record(vm, project, proc) ==
    [tag |-> "obj",
     val |-> <<[project_id |-> Get(vm, "project", NA),
                vm_id |-> Get(vm, "id", NA),
                name |-> Get(vm, "name", NA)]>>]

\* VMInventory.extract_vm_info; proc answers its machine-type query.
extract_vm_info(vm, project, proc) ==
    LET machine_type_parts == Split(Get(vm, "machineType", <<>>))
        machine_type == IF machine_type_parts # <<>> THEN Last(machine_type_parts)
                        ELSE Unknown
        zone_parts == Split(Get(vm, "zone", <<>>))
        zone == IF zone_parts # <<>> THEN Last(zone_parts) ELSE NA
        machine_info == get_machine_type_info(project, zone, machine_type, proc)
        network_interfaces == Get(vm, "networkInterfaces", <<>>)
        network == IF network_interfaces # <<>>
                   THEN Last(Split(Get(network_interfaces[1], "network", <<>>)))
                   ELSE NA
        internal_ip == IF network_interfaces # <<>>
                       THEN Get(network_interfaces[1], "networkIP", NA)
                       ELSE NA
    IN  IF machine_info.raised THEN Raised("AttributeError")
        ELSE [tag |-> "obj",
              val |-> <<[project_id |-> project,
                         vm_id |-> Get(vm, "id", NA),
                         name |-> Get(vm, "name", NA),
                         zone |-> zone,
                         status |-> Get(vm, "status", NA),
                         machine_type |-> machine_type,
                         cpu_count |-> machine_info.cpu_count,
                         memory_mb |-> machine_info.memory_mb,
                         os |-> get_os_info(vm),
                         creation_timestamp |-> Get(vm, "creationTimestamp", NA),
                         network |-> network,
                         internal_ip |-> internal_ip,
                         external_ip |-> get_external_ip(vm)]>>]

\* Whether extract_vm_info issues the machine-type query for this record.
QueriesMachineType(vm) == Last(Split(Get(vm, "machineType", <<>>))) # Unknown

\* The n-th compute instance of project p, as the listing reports it.
RawVM(p, n) ==
    [id |-> <<p, "vm", ToString(n)>>,
     name |-> <<"vm", ToString(n)>>,
     zone |-> <<"projects", "/", p, "/", "zones", "/", "us-central1-a">>,
     status |-> <<"RUNNING">>,
     machineType |-> <<"projects", "/", p, "/", "machineTypes", "/", "n1-standard-2">>,
     creationTimestamp |-> <<"2023-01-01">>,
     networkInterfaces |->
        <<[network |-> <<"global", "/", "networks", "/", "default">>,
           networkIP |-> <<"10.0.0.2">>,
           accessConfigs |-> <<[natIP |-> <<"34.0.0.2">>]>>]>>,
     disks |->
        <<[boot |-> TRUE,
           licenses |-> <<<<"projects", "/", "debian-cloud", "/", "licenses", "/", "debian-11">>>>]>>]

\* What `gcloud compute instances list --project p` can answer.
VmListingProcs(p) ==
    {Proc(1, <<>>, <<"ERROR:">>), Proc(0, <<>>, <<>>)} \cup
    (IF Alone THEN {Proc(0, <<Word("junk")>>, <<>>)} ELSE {}) \cup
    {Proc(0, <<Doc(PyList([k \in 1..n |-> RawVM(p, k)])), Ws("\n")>>, <<>>) :
        n \in 1..MaxVMs}

\* What `gcloud compute machine-types describe` can answer.
ProcMachineType == Proc(0, <<Doc(PyDict([guestCpus |-> 2, memoryMb |-> 7680]))>>, <<>>)

MachineTypeProcs ==
    IF Alone \/ entry = "cli" THEN {ProcMachineType, Proc(1, <<>>, <<"ERROR:">>)}
    ELSE {ProcMachineType}

\* How a listing query ended, as the ControlPlane saw it.
ListingOutcome(proc) ==
    IF Failed(proc) THEN "failed"
    ELSE IF Strip(proc.stdout) = <<>> THEN "empty"
    ELSE IF IsRaised(json_loads(proc.stdout)) THEN "parse_failure"
    ELSE IF json_loads(proc.stdout).val = <<>> THEN "empty"
    ELSE "found"

\* VMInventory.get_vms_in_project
get_vms_in_project(p, proc) ==
    LET result == run_gcloud_command(proc, TRUE)
    IN  IF IsRaised(result) THEN result
        ELSE IF Truthy(result) THEN result ELSE PyList(<<>>)

\* What collect_vm_inventory logs for a project, by branch taken.
VmLogSingle(listed) == IF listed # <<>> THEN "found" ELSE "no_vms_found"

VmLogAll(listed, skip) ==
    IF listed # <<>> THEN "found"
    ELSE IF ~skip THEN "no_data_or_access_issue"
    ELSE "skipping"

\* The body both branches of collect_vm_inventory run for one project:
\* the listing, then extract_vm_info for each instance listed.
VmProjectBody(p, listing, enrich) ==
    LET listed == get_vms_in_project(p, listing)
    IN  IF IsRaised(listed)
        THEN [raised |-> TRUE, infos |-> <<>>, listed |-> <<>>, queries |-> 0]
        ELSE LET out == [k \in 1..Len(listed.val) |->
                            extract_vm_info(listed.val[k], p, enrich[k])]
             IN  [raised |-> \E k \in 1..Len(out) : IsRaised(out[k]),
                  infos |-> [k \in 1..Len(out) |-> out[k].val[1]],
                  listed |-> listed.val,
                  queries |-> Cardinality({k \in 1..Len(listed.val) :
                                              QueriesMachineType(listed.val[k])})]

\* The answers one project's turn draws: its listing, and one machine-type
\* answer per instance listed.
VmAnswers(p) ==
    {a \in [listing : VmListingProcs(p), enrich : [1..MaxVMs -> MachineTypeProcs]] :
        \A k \in 1..MaxVMs :
            k > Len(get_vms_in_project(p, a.listing).val) => a.enrich[k] = ProcMachineType}

AfterVm == IF entry = "vm" THEN "done" ELSE "bq"

VmFrame ==
    UNCHANGED <<world, first_run, gate_log, entry, service_account_key,
                gcloud_installed, activations, authenticated, proceed,
                project_id, skip_disabled_apis, check_apis_only, format,
                api_status, bigquery_datasets, inventory, all_apis_ok,
                client_project_id, gcp_bq_client, inv_bq_client, u_arg, u_ret>>

\* [vm.get('id') for vm in vms]
IdsOf(listed) == [k \in 1..Len(listed) |-> Get(listed[k], "id", NA)]

\* cli.main: the export calls that follow a collection.
(***************************************************************************)
(* Export: the to_dict methods of the models, InventoryService's           *)
(* export_to_csv and export_to_json, the legacy core.export_to_csv.  Text  *)
(* is a sequence of characters; a file name leaves out the timestamp.      *)
(***************************************************************************)
VMInfoFields ==
    <<"project_id", "vm_id", "name", "zone", "status", "machine_type",
      "cpu_count", "memory_mb", "os", "creation_timestamp", "network",
      "internal_ip", "external_ip">>

BigQueryDatasetInfoFields ==
    <<"project_id", "dataset_id", "location", "creation_time",
      "last_modified_time", "table_count", "total_size_gb">>

\* The class of a record object.
ClassOf(item) == IF "vm_id" \in DOMAIN item THEN "VMInfo" ELSE "BigQueryDatasetInfo"

\* A to_dict that leaves out the attributes holding a sentinel.
to_dict_sparse(item) ==
    LET all == IF ClassOf(item) = "VMInfo" THEN VMInfoFields
               ELSE BigQueryDatasetInfoFields
        Held(f) ==
            CASE f \in {"cpu_count", "memory_mb", "table_count", "total_size_gb"} ->
                    item[f] # 0
              [] f \in {"creation_time", "last_modified_time"} -> item[f] # None
              [] f \in {"project_id", "location", "dataset_id"} -> TRUE
              [] OTHER -> item[f] # NA
    IN  [keys |-> SelectSeq(all, Held),
         vals |-> [f \in {g \in DOMAIN item : Held(g)} |-> item[f]]]

\* VMInfo.to_dict, BigQueryDatasetInfo.to_dict: a dict, its keys in
\* insertion order.
to_dict(item) ==
    [keys |-> IF ClassOf(item) = "VMInfo" THEN VMInfoFields
              ELSE BigQueryDatasetInfoFields,
     vals |-> item]

\* item.to_dict() if hasattr(item, 'to_dict') else item
AsDict(item) == IF "keys" \in DOMAIN item THEN item ELSE to_dict(item)

\* repr of round(x, 2), x given in hundredths.
FloatRepr(h) ==
    <<ToString(h \div 100), ".">> \o
    (IF h % 10 = 0 THEN <<ToString((h % 100) \div 10)>>
     ELSE <<ToString((h % 100) \div 10), ToString(h % 10)>>)

\* What the csv writer makes of a value: a string as it is, None as the
\* empty string, anything else through str().
Str(f, v) ==
    CASE f \in {"cpu_count", "memory_mb", "table_count"} -> <<ToString(v)>>
      [] f = "total_size_gb" -> IF v = 0 THEN <<"0">> ELSE FloatRepr(v)
      [] f \in {"creation_time", "last_modified_time"} ->
            IF v = None THEN <<>> ELSE <<v>>
      [] f \in {"project_id", "location"} -> <<v>>
      [] f = "dataset_id" -> <<v.owner, "_ds", ToString(v.n)>>
      [] OTHER -> v

CsvSpecial == {",", "\"", "\r", "\n"}

RECURSIVE DoubleQuotes(_)
DoubleQuotes(field) ==
    IF field = <<>> THEN <<>>
    ELSE (IF field[1] = "\"" THEN <<"\"", "\"">> ELSE <<field[1]>>)
         \o DoubleQuotes(Tail(field))

\* A writer that never quotes.
CsvField_bare(field) == field

\* csv.writer with QUOTE_MINIMAL: a field holding a delimiter, a quote or
\* a line break is quoted, its quotes doubled.
CsvField(field) ==
    IF \E k \in 1..Len(field) : field[k] \in CsvSpecial
    THEN <<"\"">> \o DoubleQuotes(field) \o <<"\"">>
    ELSE field

\* csv.writer.writerow: the fields, comma-separated, then "\r\n".
RECURSIVE CsvRow(_)
CsvRow(fields) ==
    IF fields = <<>> THEN <<"\r", "\n">>
    ELSE CsvField(fields[1]) \o (IF Len(fields) > 1 THEN <<",">> ELSE <<>>)
         \o CsvRow(Tail(fields))

\* DictWriter._dict_to_list: a key outside fieldnames raises ValueError; a
\* missing key gives the empty string.
Fits(fieldnames, row) ==
    \A k \in 1..Len(row.keys) : \E j \in 1..Len(fieldnames) : fieldnames[j] = row.keys[k]

dict_to_list(fieldnames, row) ==
    [k \in 1..Len(fieldnames) |->
        IF fieldnames[k] \in DOMAIN row.vals
        THEN Str(fieldnames[k], row.vals[fieldnames[k]])
        ELSE <<>>]

\* DictWriter.writeheader
writeheader(fieldnames) == CsvRow([k \in 1..Len(fieldnames) |-> <<fieldnames[k]>>])

\* DictWriter.writerows: the rows written until one raises.
RECURSIVE writerows(_, _)
writerows(fieldnames, rows) ==
    IF rows = <<>> THEN [text |-> <<>>, raised |-> FALSE]
    ELSE IF ~Fits(fieldnames, rows[1]) THEN [text |-> <<>>, raised |-> TRUE]
    ELSE LET rest == writerows(fieldnames, Tail(rows))
         IN  [text |-> CsvRow(dict_to_list(fieldnames, rows[1])) \o rest.text,
              raised |-> rest.raised]

EmptyFs == [dirs |-> {}, files |-> <<>>]

\* os.makedirs(output_dir, exist_ok=True)
makedirs(f, dir) == [f EXCEPT !.dirs = @ \cup {dir}]

\* os.path.join(output_dir, f"{filename_prefix}_{timestamp}.csv")
FileName(output_dir, filename_prefix, ext) ==
    [dir |-> output_dir, prefix |-> filename_prefix, ext |-> ext]

\* open(filename, 'w') and what is written until the file is closed.
WriteFile(f, name, content) ==
    [f EXCEPT !.files = [n \in DOMAIN f.files \cup {name} |->
                            IF n = name THEN content ELSE f.files[n]]]

\* InventoryService.export_to_csv; writable: whether open() succeeds.
export_to_csv(f, data, output_dir, filename_prefix, writable) ==
    IF data = <<>> THEN [ret |-> PyNone, fs |-> f]
    ELSE LET made == makedirs(f, output_dir)
             filename == FileName(output_dir, filename_prefix, "csv")
             dict_data == [k \in 1..Len(data) |-> AsDict(data[k])]
             fieldnames == dict_data[1].keys
             body == writerows(fieldnames, dict_data)
         IN  IF ~writable THEN [ret |-> PyNone, fs |-> made]
             ELSE [ret |-> IF body.raised THEN PyNone ELSE PyStr(<<filename>>),
                   fs |-> WriteFile(made, filename,
                                    writeheader(fieldnames) \o body.text)]

\* InventoryService.export_to_json
export_to_json(f, data, output_dir, filename_prefix, writable) ==
    IF data = <<>> THEN [ret |-> PyNone, fs |-> f]
    ELSE LET made == makedirs(f, output_dir)
             filename == FileName(output_dir, filename_prefix, "json")
             dict_data == [k \in 1..Len(data) |-> AsDict(data[k])]
         IN  IF ~writable THEN [ret |-> PyNone, fs |-> made]
             ELSE [ret |-> PyStr(<<filename>>),
                   fs |-> WriteFile(made, filename, [json |-> dict_data])]

\* core.export_to_csv: the directory is made before the data is looked at,
\* and nothing is caught.
core_export_to_csv(f, vm_data, output_dir, writable) ==
    LET made == makedirs(f, output_dir)
        filename == FileName(output_dir, "gcp_vm_inventory", "csv")
    IN  IF vm_data = <<>> THEN [ret |-> PyNone, fs |-> made]
        ELSE LET fieldnames == vm_data[1].keys
                 body == writerows(fieldnames, vm_data)
             IN  IF ~writable THEN [ret |-> Raised("OSError"), fs |-> made]
                 ELSE [ret |-> IF body.raised THEN Raised("ValueError")
                               ELSE PyStr(<<filename>>),
                       fs |-> WriteFile(made, filename,
                                        writeheader(fieldnames) \o body.text)]

\* cli.main: the file name prefix per kind of resource.
Prefix(kind) == IF kind = "compute" THEN "vm_inventory" ELSE "bigquery_inventory"

\* cli.main: the export calls issued for the records of one kind, none
\* when there is no record.
ExportAfter(kind, records) ==
    IF entry = "cli" /\ records # <<>>
    THEN exported \cup
         {[fn |-> fn, prefix |-> Prefix(kind), data |-> records] :
            fn \in (IF format \in {"csv", "both"} THEN {"export_to_csv"} ELSE {})
                   \cup (IF format \in {"json", "both"} THEN {"export_to_json"} ELSE {})}
    ELSE exported

\* cli.main: the filesystem after those calls, the output directory
\* being writable.
FsAfter(kind, records) ==
    IF entry = "cli" /\ records # <<>>
    THEN LET csv == IF format \in {"csv", "both"}
                    THEN export_to_csv(fs, records, "output", Prefix(kind), TRUE).fs
                    ELSE fs
         IN  IF format \in {"json", "both"}
             THEN export_to_json(csv, records, "output", Prefix(kind), TRUE).fs
             ELSE csv
    ELSE fs

\* collect_vm_inventory with a project id.
VmSingle ==
    /\ pc = "vm"
    /\ gcloud_installed
    /\ project_id # None
    /\ \E a \in VmAnswers(project_id) :
        \E r \in {VmProjectBody(project_id, a.listing, a.enrich)} :
            /\ calls' = [calls EXCEPT !.list["compute"][project_id] = @ + 1,
                                      !.enrich = @ + r.queries]
            /\ list_outcome' = [list_outcome EXCEPT !["compute"][project_id] =
                                    ListingOutcome(a.listing)]
            /\ listed_ids' = [listed_ids EXCEPT !["compute"][project_id] =
                                  IdsOf(r.listed)]
            /\ IF r.raised
               THEN /\ pc' = "raised"
                    /\ UNCHANGED <<vms, pair_log, exported, fs>>
               ELSE /\ vms' = r.infos
                    /\ pair_log' = [pair_log EXCEPT !["compute"][project_id] =
                                        VmLogSingle(r.listed)]
                    /\ exported' = ExportAfter("compute", r.infos)
                    /\ fs' = FsAfter("compute", r.infos)
                    /\ pc' = AfterVm
    /\ UNCHANGED <<projects, i>>
    /\ VmFrame

\* collect_vm_inventory without a project id: one discovery query.
VmDiscover ==
    /\ pc = "vm"
    /\ gcloud_installed
    /\ project_id = None
    /\ \E proc \in DiscoveryProcs :
        \E data \in {get_projects(proc)} :
            /\ calls' = [calls EXCEPT !.discovery = @ + 1]
            /\ vms' = <<>>
            /\ IF IsRaised(data)
               THEN /\ pc' = "raised"
                    /\ UNCHANGED <<projects, i>>
               ELSE IF ~Truthy(data)
               THEN /\ projects' = <<>>
                    /\ i' = 0
                    /\ pc' = AfterVm
               ELSE /\ projects' = ProjectIds(data)
                    /\ i' = 1
                    /\ pc' = "vm_loop"
    /\ UNCHANGED <<pair_log, list_outcome, listed_ids, exported, fs>>
    /\ VmFrame

\* One turn of `for project in projects` in collect_vm_inventory.
VmProject ==
    /\ pc = "vm_loop"
    /\ gcloud_installed
    /\ \E a \in VmAnswers(projects[i]) :
        \E p \in {projects[i]}, r \in {VmProjectBody(projects[i], a.listing, a.enrich)} :
            /\ calls' = [calls EXCEPT !.list["compute"][p] = @ + 1,
                                      !.enrich = @ + r.queries]
            /\ list_outcome' = [list_outcome EXCEPT !["compute"][p] =
                                    ListingOutcome(a.listing)]
            /\ listed_ids' = [listed_ids EXCEPT !["compute"][p] = IdsOf(r.listed)]
            /\ IF r.raised
               THEN /\ pc' = "raised"
                    /\ UNCHANGED <<vms, pair_log, exported, fs, i>>
               ELSE /\ vms' = vms \o r.infos
                    /\ pair_log' = [pair_log EXCEPT !["compute"][p] =
                                        VmLogAll(r.listed, skip_disabled_apis)]
                    /\ i' = i + 1
                    /\ pc' = IF i = Len(projects) THEN AfterVm ELSE "vm_loop"
                    /\ exported' = IF i = Len(projects)
                                   THEN ExportAfter("compute", vms \o r.infos)
                                   ELSE exported
                    /\ fs' = IF i = Len(projects)
                             THEN FsAfter("compute", vms \o r.infos)
                             ELSE fs
    /\ UNCHANGED projects
    /\ VmFrame

(***************************************************************************)
(* Datasets: BigQueryInventory.  A BigQuery client is represented by the   *)
(* project it was created for; a dataset id names the project that owns    *)
(* the dataset.                                                            *)
(***************************************************************************)
DatasetId(owner, n) == [owner |-> owner, n |-> n]

\* GCPClient.get_bigquery_client: the cached client if there is one, else
\* a new client for GCPClient.project_id, or None if creating it raised.
get_bigquery_client(cached, for_project, created) ==
    IF cached # None THEN [client |-> cached, cached |-> cached]
    ELSE IF created THEN [client |-> for_project, cached |-> for_project]
    ELSE [client |-> None, cached |-> None]

\* BigQueryInventory._get_bq_client
get_bq_client(own, cached, for_project, created) ==
    IF own # None THEN [client |-> own, own |-> own, cached |-> cached]
    ELSE LET made == get_bigquery_client(cached, for_project, created)
         IN  [client |-> made.client, own |-> made.client, cached |-> made.cached]

\* What list_datasets, and get_dataset for each item's location, can
\* answer through a client of project `bound`.
DatasetListings(bound) ==
    {[ok |-> FALSE, items |-> <<>>]} \cup
    {[ok |-> TRUE, items |-> its] :
        its \in UNION {[1..n -> [located : IF Alone THEN BOOLEAN ELSE {TRUE}]] :
                        n \in 0..MaxDatasets}}

\* BigQueryInventory.get_datasets, its client at hand
get_datasets(project, bound, listing) ==
    IF ~listing.ok THEN PyList(<<>>)
    ELSE PyList([k \in 1..Len(listing.items) |->
                    [datasetReference |-> [datasetId |-> DatasetId(bound, k),
                                           projectId |-> project],
                     id |-> <<project, DatasetId(bound, k)>>,
                     kind |-> "bigquery#dataset",
                     location |-> IF listing.items[k].located THEN "US" ELSE "unknown"]])

\* One table's detail lookup: its size, or a failure.
TableOk(bytes) == [ok |-> TRUE, numBytes |-> bytes]
TableFailed == [ok |-> FALSE, numBytes |-> 0]

\* table_ref.num_bytes when the table reports no size: Python's None.
NoBytes == -1
TableSizeless == [ok |-> TRUE, numBytes |-> NoBytes]

\* What get_dataset, list_tables and get_table can answer for one dataset.
DatasetDetails ==
    {[detail_ok |-> TRUE, tables_ok |-> TRUE, tables |-> <<TableOk(10 * 1024 * 1024)>>]} \cup
    (IF Alone
     THEN {[detail_ok |-> FALSE, tables_ok |-> TRUE, tables |-> <<>>],
           [detail_ok |-> TRUE, tables_ok |-> FALSE, tables |-> <<>>],
           [detail_ok |-> TRUE, tables_ok |-> TRUE,
            tables |-> <<TableOk(10 * 1024 * 1024), TableFailed>>]}
     ELSE {})

\* BigQueryInventory.get_tables
get_tables(project, dataset_id, detail) ==
    IF ~detail.tables_ok THEN <<>>
    ELSE [k \in 1..Len(detail.tables) |->
            IF detail.tables[k].ok
            THEN [id |-> <<project, dataset_id, k>>,
                  numBytes |-> detail.tables[k].numBytes,
                  described |-> TRUE]
            ELSE [id |-> <<project, dataset_id, k>>, numBytes |-> 0,
                  described |-> FALSE]]

\* Whether sum() can add the sizes: it raises TypeError on a None.
Summable(tables) == \A k \in 1..Len(tables) : tables[k].numBytes # NoBytes

RECURSIVE SumBytes(_)
SumBytes(tables) ==
    IF tables = <<>> THEN 0
    ELSE Get(tables[1], "numBytes", 0) + SumBytes(Tail(tables))

\* round(total_size_bytes / 2^30, 2), in hundredths of a GB: round half
\* to even.
SizeGbHundredths(total_size_bytes) ==
    LET gib == 256 * 1024 * 1024          \* x * 100 / 2^30 = x * 25 / 2^28
        q == (total_size_bytes * 25) \div gib
        r == (total_size_bytes * 25) % gib
    IN  IF total_size_bytes <= 0 THEN 0
        ELSE IF 2 * r > gib THEN q + 1
        ELSE IF 2 * r < gib THEN q
        ELSE q + (q % 2)

\* BigQueryInventory.extract_dataset_info, its client at hand; any
\* exception inside it gives None.
extract_dataset_info(project, dataset_id, location, detail) ==
    IF ~detail.detail_ok THEN PyNone
    ELSE LET tables == get_tables(project, dataset_id, detail)
         IN  IF ~Summable(tables) THEN PyNone ELSE
             [tag |-> "obj",
              val |-> <<[project_id |-> project,
                         dataset_id |-> dataset_id,
                         location |-> location,
                         creation_time |-> "created",
                         last_modified_time |-> "modified",
                         table_count |-> Len(tables),
                         total_size_gb |-> SizeGbHundredths(SumBytes(tables))]>>]

\* The records of a list of extraction results, the None ones left out.
RECURSIVE Kept(_)
Kept(results) ==
    IF results = <<>> THEN <<>>
    ELSE IF results[1].tag = "obj" THEN <<results[1].val[1]>> \o Kept(Tail(results))
    ELSE Kept(Tail(results))

\* The body both branches of collect_bigquery_inventory run for one
\* project once they hold a client: the listing, then extract_dataset_info
\* for each dataset listed.
BqProjectBody(p, bound, listing, details) ==
    LET datasets == get_datasets(p, bound, listing)
    IN  IF IsRaised(datasets)
        THEN [raised |-> TRUE, infos |-> <<>>, listed |-> <<>>, queries |-> 0]
        ELSE [raised |-> FALSE,
              infos |-> Kept([k \in 1..Len(datasets.val) |->
                                extract_dataset_info(
                                    p, datasets.val[k].datasetReference.datasetId,
                                    Get(datasets.val[k], "location", "N/A"),
                                    details[k])]),
              listed |-> datasets.val,
              queries |-> Len(datasets.val)]

\* What collect_bigquery_inventory logs for a project, by branch taken.
BqLog(client, listed, skip) ==
    IF client = None
    THEN (IF ~skip THEN "no_client_skipping_warned" ELSE "no_client")
    ELSE IF listed = <<>> THEN "no_datasets"
    ELSE "found"

\* The answers one project's turn draws: whether a new client can be
\* created, the listing, and the detail answers per dataset listed.
DefaultDetail ==
    [detail_ok |-> TRUE, tables_ok |-> TRUE, tables |-> <<TableOk(10 * 1024 * 1024)>>]

BqAnswers(own, cached, for_project) ==
    {a \in [created : BOOLEAN,
            listing : DatasetListings(for_project),
            details : [1..MaxDatasets -> DatasetDetails]] :
        /\ (own # None \/ cached # None) => a.created
        /\ get_bq_client(own, cached, for_project, a.created).client = None
              => a.listing = [ok |-> FALSE, items |-> <<>>]
        /\ \A k \in 1..MaxDatasets :
              k > Len(a.listing.items) => a.details[k] = DefaultDetail}

\* The ControlPlane answers what it likes, call by call.
AnyWorld == [fixed |-> FALSE]

\* No first run has been kept.
NotYet == [done |-> FALSE]

\* What `gcloud projects list` answers in this world.
DiscoveryAnswers ==
    IF world.fixed THEN {world.discovery} ELSE DiscoveryProcs

\* What one project's turn is answered in this world: a fixed world
\* answers bigquery.Client(project) by the project asked for and
\* list_datasets by the project of the client it is called on.
BqTurnAnswers(own, cached, for_project) ==
    IF ~world.fixed THEN BqAnswers(own, cached, for_project)
    ELSE LET created == own # None \/ cached # None \/ world.created[for_project]
             client == get_bq_client(own, cached, for_project, created).client
         IN  {[created |-> created,
               listing |-> IF client = None THEN [ok |-> FALSE, items |-> <<>>]
                           ELSE world.listing[client],
               details |-> [k \in 1..MaxDatasets |-> DefaultDetail]]}

\* [d.get('datasetReference', {}).get('datasetId') for d in datasets]
DatasetIdsOf(listed) ==
    [k \in 1..Len(listed) |-> listed[k].datasetReference.datasetId]

AfterBq == IF entry = "bq" THEN "done" ELSE "sql_gke"

BqFrame ==
    UNCHANGED <<world, first_run, gate_log, entry, service_account_key,
                gcloud_installed, activations, authenticated, proceed,
                project_id, skip_disabled_apis, check_apis_only, format,
                api_status, vms, inventory, all_apis_ok, u_arg, u_ret>>

\* collect_bigquery_inventory with a project id.
BqSingle ==
    /\ pc = "bq"
    /\ project_id # None
    /\ \E a \in BqTurnAnswers(inv_bq_client, gcp_bq_client, client_project_id) :
        \E got \in {get_bq_client(inv_bq_client, gcp_bq_client,
                                     client_project_id, a.created)} :
        \E r \in {BqProjectBody(project_id, got.client, a.listing, a.details)} :
            /\ inv_bq_client' = got.own
            /\ gcp_bq_client' = got.cached
            /\ IF got.client = None
               THEN /\ bigquery_datasets' = <<>>
                    /\ UNCHANGED calls
                    /\ listed_ids' = [listed_ids EXCEPT !["bigquery"][project_id] = <<>>]
                    /\ list_outcome' = [list_outcome EXCEPT !["bigquery"][project_id] = "no_client"]
                    /\ pair_log' = [pair_log EXCEPT !["bigquery"][project_id] =
                                        BqLog(None, <<>>, skip_disabled_apis)]
                    /\ UNCHANGED <<exported, fs>>
               ELSE /\ bigquery_datasets' = r.infos
                    /\ listed_ids' = [listed_ids EXCEPT !["bigquery"][project_id] =
                                          DatasetIdsOf(r.listed)]
                    /\ calls' = [calls EXCEPT !.list["bigquery"][got.client] = @ + 1,
                                              !.detail = @ + r.queries]
                    /\ list_outcome' = [list_outcome EXCEPT !["bigquery"][project_id] =
                                            IF ~a.listing.ok THEN "failed"
                                            ELSE IF a.listing.items = <<>> THEN "empty"
                                            ELSE "found"]
                    /\ pair_log' = [pair_log EXCEPT !["bigquery"][project_id] =
                                        IF r.raised THEN "error"
                                        ELSE BqLog(got.client, r.listed, skip_disabled_apis)]
                    /\ exported' = ExportAfter("bigquery", r.infos)
                    /\ fs' = FsAfter("bigquery", r.infos)
    /\ pc' = AfterBq
    /\ UNCHANGED <<projects, i, client_project_id>>
    /\ BqFrame

\* collect_bigquery_inventory without a project id: one discovery query.
BqDiscover ==
    /\ pc = "bq"
    /\ gcloud_installed
    /\ project_id = None
    /\ \E proc \in DiscoveryAnswers :
        \E data \in {get_projects(proc)} :
            /\ calls' = [calls EXCEPT !.discovery = @ + 1]
            /\ bigquery_datasets' = <<>>
            /\ IF IsRaised(data) \/ ~Truthy(data)
               THEN /\ projects' = <<>>
                    /\ i' = 0
                    /\ pc' = AfterBq
               ELSE /\ projects' = ProjectIds(data)
                    /\ i' = 1
                    /\ pc' = "bq_loop"
    /\ UNCHANGED <<pair_log, list_outcome, listed_ids, exported, fs,
                   client_project_id, gcp_bq_client, inv_bq_client>>
    /\ BqFrame

\* One turn of `for project in projects` in collect_bigquery_inventory:
\* the client's project id is set, the collector's own client is reset.
BqProject ==
    /\ pc = "bq_loop"
    /\ \E a \in BqTurnAnswers(None, gcp_bq_client, projects[i]) :
        \E p \in {projects[i]} :
        \E got \in {get_bq_client(None, gcp_bq_client, p, a.created)} :
        \E r \in {BqProjectBody(p, got.client, a.listing, a.details)} :
        \E ended \in {r.raised \/ i = Len(projects)} :
            /\ client_project_id' = p
            /\ inv_bq_client' = got.own
            /\ gcp_bq_client' = got.cached
            /\ IF got.client = None
               THEN /\ UNCHANGED <<bigquery_datasets, calls>>
                    /\ listed_ids' = [listed_ids EXCEPT !["bigquery"][p] = <<>>]
                    /\ list_outcome' = [list_outcome EXCEPT !["bigquery"][p] = "no_client"]
                    /\ pair_log' = [pair_log EXCEPT !["bigquery"][p] =
                                        BqLog(None, <<>>, skip_disabled_apis)]
               ELSE /\ bigquery_datasets' = bigquery_datasets \o r.infos
                    /\ listed_ids' = [listed_ids EXCEPT !["bigquery"][p] =
                                          DatasetIdsOf(r.listed)]
                    /\ calls' = [calls EXCEPT !.list["bigquery"][got.client] = @ + 1,
                                              !.detail = @ + r.queries]
                    /\ list_outcome' = [list_outcome EXCEPT !["bigquery"][p] =
                                            IF ~a.listing.ok THEN "failed"
                                            ELSE IF a.listing.items = <<>> THEN "empty"
                                            ELSE "found"]
                    /\ pair_log' = [pair_log EXCEPT !["bigquery"][p] =
                                        IF r.raised THEN "error"
                                        ELSE BqLog(got.client, r.listed, skip_disabled_apis)]
            /\ i' = IF ended THEN i ELSE i + 1
            /\ pc' = IF ended THEN AfterBq ELSE "bq_loop"
            /\ exported' = IF ended
                           THEN ExportAfter("bigquery",
                                    IF got.client = None THEN bigquery_datasets
                                    ELSE bigquery_datasets \o r.infos)
                           ELSE exported
            /\ fs' = IF ended
                     THEN FsAfter("bigquery",
                              IF got.client = None THEN bigquery_datasets
                              ELSE bigquery_datasets \o r.infos)
                     ELSE fs
    /\ UNCHANGED projects
    /\ BqFrame

(***************************************************************************)
(* The kinds without a collector, and the two orchestrators.               *)
(***************************************************************************)
\* InventoryService.collect_sql_inventory
collect_sql_inventory(skip) == <<>>

\* InventoryService.collect_gke_inventory
collect_gke_inventory(skip) == <<>>

NoInventory ==
    [built |-> FALSE, vms |-> <<>>, sql_instances |-> <<>>,
     bigquery_datasets |-> <<>>, gke_clusters |-> <<>>, api_status |-> <<>>]

InventoryResult(v, sql, bq, gke, status) ==
    [built |-> TRUE, vms |-> v, sql_instances |-> sql, bigquery_datasets |-> bq,
     gke_clusters |-> gke, api_status |-> status]

\* cli.display_api_status: whether every status shown is OK.
display_api_status(api_status_list) ==
    \A k \in 1..Len(api_status_list) : api_status_list[k].status = "OK"

\* str.lower() of what the user typed.
lower(answer) == IF answer = "Y" THEN "y" ELSE answer

OrchFrame ==
    UNCHANGED <<world, first_run, gate_log, entry, service_account_key,
                gcloud_installed, activations, authenticated, project_id,
                skip_disabled_apis, check_apis_only, format, i, projects,
                api_status, vms, bigquery_datasets,
                client_project_id, gcp_bq_client, inv_bq_client, calls,
                pair_log, list_outcome, listed_ids, u_arg, u_ret>>

\* A summary step that does not look at --check-apis-only.
CliDisplay_collecting ==
    /\ pc = "cli_display"
    /\ all_apis_ok' = display_api_status(api_status)
    /\ pc' = IF ~display_api_status(api_status) THEN "cli_prompt" ELSE "vm"
    /\ UNCHANGED <<inventory, exported, fs, proceed>>
    /\ OrchFrame

\* cli.main: the status summary, and --check-apis-only.
CliDisplay ==
    /\ pc = "cli_display"
    /\ all_apis_ok' = display_api_status(api_status)
    /\ pc' = IF check_apis_only THEN "done"
             ELSE IF ~display_api_status(api_status) THEN "cli_prompt"
             ELSE "vm"
    /\ UNCHANGED <<inventory, exported, fs, proceed>>
    /\ OrchFrame

\* cli.main: "Do you want to proceed anyway? (y/n)".
CliPrompt ==
    /\ pc = "cli_prompt"
    /\ \E answer \in {"y", "Y", "n", ""} :
        /\ proceed' = lower(answer)
        /\ pc' = IF lower(answer) # "y" THEN "done" ELSE "vm"
    /\ UNCHANGED <<inventory, all_apis_ok, exported, fs>>
    /\ OrchFrame

\* The Cloud SQL and GKE collections, which return nothing, and for
\* collect_all_inventory the InventoryResult it returns.
SqlGke ==
    /\ pc = "sql_gke"
    /\ inventory' = IF entry = "all"
                    THEN InventoryResult(vms,
                                         collect_sql_inventory(skip_disabled_apis),
                                         bigquery_datasets,
                                         collect_gke_inventory(skip_disabled_apis),
                                         api_status)
                    ELSE inventory
    /\ pc' = "done"
    /\ UNCHANGED <<all_apis_ok, exported, fs, proceed>>
    /\ OrchFrame

(***************************************************************************)
(* Unit runs: one call of a function of the adapter or the gate.           *)
(***************************************************************************)
Seqs(S, n) == UNION {[1..k -> S] : k \in 0..n}

StatusTokens == {Ws(" "), Ws("\n"), Word("ENABLED"), Word("DISABLED")}

\* Answers to a capability query: any short output, any short error.
StatusProcs ==
    {Proc(0, out, err) : out \in Seqs(StatusTokens, MaxOutLen),
                          err \in {<<>>, <<"PERMISSION_DENIED">>}} \cup
    {Proc(1, <<>>, err) : err \in Seqs({"ERROR:", "PERMISSION_DENIED"}, MaxOutLen)}

JsonTokens ==
    {Ws("\n"), Word("junk"), Doc(PyList(<<>>)), Doc(PyList(<<ProjectDict("p1")>>)),
     Doc(PyEmptyDict), Doc(PyDict([guestCpus |-> 2, memoryMb |-> 7680]))}

\* Answers to a command whose output is JSON.
JsonProcs ==
    {Proc(0, out, <<>>) : out \in Seqs(JsonTokens, MaxOutLen)} \cup
    {Proc(1, <<>>, err) : err \in {<<"ERROR:">>, <<"ERROR:", "API not enabled">>}}

UnitArgs ==
    [fn : {"check_api_status"}, project : Projects,
     api_id : {required_apis[k] : k \in 1..Len(required_apis)}, proc : StatusProcs] \cup
    [fn : {"run_gcloud_command"}, proc : JsonProcs, check_json : BOOLEAN,
     auth : {"none", "activated", "failed"}]

NoArg == [fn |-> "none"]
Pending == [tag |-> "pending"]

UnitFrame ==
    UNCHANGED <<world, first_run, gate_log, entry, service_account_key,
                gcloud_installed, activations, authenticated, proceed,
                project_id, skip_disabled_apis, check_apis_only, format, i,
                projects, api_status, vms, bigquery_datasets, inventory,
                all_apis_ok, exported, fs, client_project_id, gcp_bq_client,
                inv_bq_client, calls, pair_log, list_outcome, listed_ids, u_arg>>

\* One call of GCPClient.check_api_status, and of the legacy
\* check_required_apis on the same answer.
UnitCheckApiStatus ==
    /\ pc = "unit"
    /\ u_arg.fn = "check_api_status"
    /\ u_ret' = [tag |-> "returned",
                 client |-> check_api_status(u_arg.project, u_arg.api_id, u_arg.proc),
                 legacy |-> check_required_apis(u_arg.project, u_arg.proc)]
    /\ pc' = "done"
    /\ UnitFrame

\* One call of GCPClient.run_gcloud_command, and of core.run_gcloud_command
\* on the same answer.
UnitRunGcloud ==
    /\ pc = "unit"
    /\ u_arg.fn = "run_gcloud_command"
    /\ u_ret' = [tag |-> "returned",
                 client |-> run_gcloud_command(u_arg.proc, u_arg.check_json),
                 core |-> core_run_gcloud_command(u_arg.proc, u_arg.check_json,
                                                  u_arg.auth)]
    /\ pc' = "done"
    /\ UnitFrame

(***************************************************************************)
(* Specifications.                                                         *)
(***************************************************************************)
NoCalls ==
    [discovery |-> 0,
     gate |-> [p \in Projects |-> 0],
     list |-> [k \in Kinds |-> [p \in Projects |-> 0]],
     enrich |-> 0,
     detail |-> 0]

StartOf(e) ==
    CASE e \in {"gate", "all", "cli"} -> "gate"
      [] e = "vm" -> "vm"
      [] e = "bq" -> "bq"
      [] e \in {"unit", "export"} -> "unit"

\* What a run starts from, whatever its credentials and its first step.
InitState(Entries) ==
    /\ entry \in Entries
    /\ project_id \in Projects \cup {None}
    /\ skip_disabled_apis \in (IF entry \in {"gate", "unit"} THEN {FALSE} ELSE BOOLEAN)
    /\ check_apis_only \in (IF entry = "cli" THEN BOOLEAN ELSE {FALSE})
    /\ format \in (IF entry = "cli" THEN {"csv", "json", "both"} ELSE {"csv"})
    /\ i = 0
    /\ projects = <<>>
    /\ api_status = <<>>
    /\ vms = <<>>
    /\ bigquery_datasets = <<>>
    /\ inventory = NoInventory
    /\ all_apis_ok = FALSE
    /\ proceed = None
    /\ exported = {}
    /\ fs \in (IF entry = "export" THEN {EmptyFs, makedirs(EmptyFs, "output")}
               ELSE {EmptyFs})
    /\ client_project_id = project_id
    /\ gcp_bq_client = None
    /\ inv_bq_client = None
    /\ calls = NoCalls
    /\ gate_log = <<>>
    /\ pair_log = [k \in Kinds |-> [p \in Projects |-> "none"]]
    /\ list_outcome = [k \in Kinds |-> [p \in Projects |-> "none"]]
    /\ listed_ids = [k \in Kinds |-> [p \in Projects |-> <<>>]]
    /\ u_ret = Pending

\* The state after InventoryService.__init__ with ambient credentials on a
\* host that has gcloud, at the call of entry point e.
InitOf(Entries) ==
    /\ InitState(Entries)
    /\ service_account_key = None
    /\ gcloud_installed = TRUE
    /\ activations = 0
    /\ authenticated = "none"
    /\ pc = StartOf(entry)
    /\ world = AnyWorld
    /\ first_run = NotYet

\* A run of one collector, of collect_all_inventory, or of the CLI.
Init ==
    /\ InitOf({"vm", "bq", "all", "cli"})
    /\ u_arg = NoArg

Next ==
    \/ GateExplicit
    \/ GateDiscover
    \/ GateProject
    \/ CliDisplay
    \/ CliPrompt
    \/ VmSingle
    \/ VmDiscover
    \/ VmProject
    \/ BqSingle
    \/ BqDiscover
    \/ BqProject
    \/ SqlGke

Spec == Init /\ [][Next]_vars

\* A run of InventoryService.check_api_status alone.
InitGate ==
    /\ InitOf({"gate"})
    /\ u_arg = NoArg

NextGate ==
    \/ GateExplicit
    \/ GateDiscover
    \/ GateProject

SpecGate == InitGate /\ [][NextGate]_vars

\* One call of a pure function on one input.
InitUnit ==
    /\ InitOf({"unit"})
    /\ project_id = None
    /\ u_arg \in UnitArgs

NextUnit ==
    \/ UnitCheckApiStatus
    \/ UnitRunGcloud

SpecUnit == InitUnit /\ [][NextUnit]_vars

(***************************************************************************)
(* Extraction runs: one call of extract_vm_info on one raw record.         *)
(***************************************************************************)
\* A record without the fields named in gone.
Without(rec, gone) == [f \in (DOMAIN rec) \ gone |-> rec[f]]

\* The n-th access configuration, network interface and disk of a record.
RawAccessConfig(n) == [natIP |-> <<"34.0.0.", ToString(n)>>]

RawInterface(n) ==
    [network |-> <<"global", "/", "networks", "/", "net", ToString(n)>>,
     networkIP |-> <<"10.0.0.", ToString(n)>>,
     accessConfigs |-> <<RawAccessConfig(n)>>]

RawLicense(n) ==
    <<"projects", "/", "debian-cloud", "/", "licenses", "/", "debian-", ToString(n)>>

RawDisk(n, boot) == [boot |-> boot, licenses |-> <<RawLicense(n)>>]

\* What the first interface of a record can look like.
FirstInterfaces ==
    {RawInterface(1),
     Without(RawInterface(1), {"network"}),
     Without(RawInterface(1), {"networkIP"}),
     Without(RawInterface(1), {"accessConfigs"}),
     [RawInterface(1) EXCEPT !.accessConfigs = <<>>],
     [RawInterface(1) EXCEPT !.accessConfigs = <<[name |-> <<"External NAT">>]>>],
     [RawInterface(1) EXCEPT !.accessConfigs = <<RawAccessConfig(1), RawAccessConfig(2)>>]}

\* The networkInterfaces lists: a first interface, then whole ones.
InterfaceLists ==
    {<<>>} \cup
    {<<first>> \o [k \in 1..n |-> RawInterface(k + 1)] :
        first \in FirstInterfaces, n \in 0..(MaxInterfaces - 1)}

\* What the first disk of a record can look like.
FirstDisks ==
    {RawDisk(1, TRUE),
     RawDisk(1, FALSE),
     Without(RawDisk(1, TRUE), {"boot"}),
     Without(RawDisk(1, TRUE), {"licenses"}),
     [RawDisk(1, TRUE) EXCEPT !.licenses = <<>>],
     [RawDisk(1, TRUE) EXCEPT !.licenses = <<RawLicense(1), RawLicense(9)>>],
     [RawDisk(1, TRUE) EXCEPT !.licenses = <<<<"debian-", "1">>>>]}

\* The disks lists: a first disk, then boot or data disks with a license.
DiskLists ==
    {<<>>} \cup
    {<<first>> \o [k \in 1..Len(flags) |-> RawDisk(k + 1, flags[k])] :
        first \in FirstDisks, flags \in Seqs(BOOLEAN, MaxDisks - 1)}

\* The plain attributes a record may lack: none, one of them, or all.
PlainGone ==
    {{}, {"id"}, {"name"}, {"status"}, {"creationTimestamp"},
     {"id", "name", "status", "creationTimestamp"}}

\* An optional list field: absent, or present with one of the lists.
Optional(lists) ==
    {[has |-> FALSE, val |-> <<>>]} \cup {[has |-> TRUE, val |-> l] : l \in lists}

\* The raw compute-instance records handed to extract_vm_info.
RawRecords ==
    {[f \in ((DOMAIN RawVM("p1", 1)) \ gone) \cup
            (IF nis.has THEN {"networkInterfaces"} ELSE {}) \cup
            (IF ds.has THEN {"disks"} ELSE {}) |->
        CASE f = "networkInterfaces" -> nis.val
          [] f = "disks" -> ds.val
          [] f = "machineType" -> mt
          [] OTHER -> RawVM("p1", 1)[f]] :
        gone \in {pg \cup zg \cup {"networkInterfaces", "disks"} :
                    pg \in PlainGone, zg \in SUBSET {"zone", "machineType"}},
        nis \in Optional(InterfaceLists),
        ds \in Optional(DiskLists),
        mt \in {RawVM("p1", 1).machineType, <<"unknown">>}}

\* What the machine-type query of an extraction can answer: a record
\* that names no machine type gets no machine type described.
ExtractArgs ==
    {a \in [fn : {"extract_vm_info"}, vm : RawRecords, project : {"p2"},
            proc : {ProcMachineType, Proc(1, <<>>, <<"ERROR:">>), Proc(0, <<>>, <<>>)}] :
        /\ "machineType" \notin DOMAIN a.vm => a.proc # ProcMachineType
        /\ ~QueriesMachineType(a.vm) => a.proc = ProcMachineType}

\* One call of VMInventory.extract_vm_info.
UnitExtractVm ==
    /\ pc = "unit"
    /\ u_arg.fn = "extract_vm_info"
    /\ u_ret' = [tag |-> "returned",
                 info |-> extract_vm_info(u_arg.vm, u_arg.project, u_arg.proc),
                 queries |-> IF QueriesMachineType(u_arg.vm) THEN 1 ELSE 0]
    /\ pc' = "done"
    /\ UnitFrame

InitExtract ==
    /\ InitOf({"unit"})
    /\ project_id = None
    /\ u_arg \in ExtractArgs

NextExtract ==
    \/ UnitExtractVm

SpecExtract == InitExtract /\ [][NextExtract]_vars

(***************************************************************************)
(* Properties of one call (SpecUnit).                                      *)
(***************************************************************************)
\* The text is the word ENABLED with nothing but whitespace around it.
IsEnabledText(stdout) ==
    \E k \in 1..Len(stdout) :
        /\ stdout[k] = Word("ENABLED")
        /\ \A j \in (1..Len(stdout)) \ {k} : IsWs(stdout[j])

\* The status a response is owed, read off the response alone.
Classification(proc) ==
    IF proc.rc = 0
    THEN (IF IsEnabledText(proc.stdout) THEN "OK" ELSE "MISSING")
    ELSE IF \E k \in 1..Len(proc.stderr) : proc.stderr[k] = "PERMISSION_DENIED"
    THEN "CREDENTIAL_ISSUE"
    ELSE "ERROR"

\* C1: GCPClient.check_api_status and the legacy check_required_apis give
\* one capability query the status its response is owed, whatever the
\* project and the capability: OK exactly when the query succeeds and the
\* state read back (the output, its surrounding whitespace stripped) is
\* ENABLED; MISSING for any other output of a successful query, the empty
\* one included; CREDENTIAL_ISSUE when the query fails with
\* PERMISSION_DENIED in its error output; ERROR for any other failure.
C1_ClassificationByResponse ==
    (pc = "done" /\ u_arg.fn = "check_api_status") =>
        /\ u_ret.client = Classification(u_arg.proc)
        /\ u_ret.legacy = Classification(u_arg.proc)

\* A successful query whose output is ENABLED and a newline was classified
\* OK for the BigQuery API of project p2.
C1_Witness ==
    /\ pc = "done"
    /\ u_arg.fn = "check_api_status"
    /\ u_arg.project = "p2"
    /\ u_arg.api_id = "bigquery.googleapis.com"
    /\ u_arg.proc = Proc(0, <<Word("ENABLED"), Ws("\n")>>, <<>>)
    /\ u_ret.client = "OK"
    /\ u_ret.legacy = "OK"

\* How the external command ended, read off the subprocess alone.
CommandOutcome(proc, check_json) ==
    LET solid == {k \in 1..Len(proc.stdout) : ~IsWs(proc.stdout[k])}
    IN  IF proc.rc # 0 THEN "failed"
        ELSE IF solid = {} THEN "empty"
        ELSE IF ~check_json THEN "valid"
        ELSE IF Cardinality(solid) = 1 /\ \A k \in solid : proc.stdout[k].k = "doc"
        THEN "valid"
        ELSE "malformed"

\* The value the Empty outcome is owed.
EmptyValue(check_json) == IF check_json THEN PyList(<<>>) ELSE PyStr(<<>>)

\* The value a valid output is owed.
ParsedValue(proc, check_json) ==
    IF check_json
    THEN LET k == CHOOSE j \in 1..Len(proc.stdout) : ~IsWs(proc.stdout[j])
         IN  proc.stdout[k].v[1]
    ELSE PyStr(proc.stdout)

\* What the adapter contract asks of one returned value r.
AdapterContract(r, proc, check_json) ==
    LET outcome == CommandOutcome(proc, check_json)
    IN  /\ ~IsRaised(r)
        /\ outcome = "failed" => r = PyNone
        /\ outcome = "empty" => r = EmptyValue(check_json)
        /\ outcome = "valid" => r = ParsedValue(proc, check_json)
        /\ outcome = "malformed" => r # EmptyValue(check_json)

\* C4: run_gcloud_command, in GCPClient and in core, never raises: valid
\* output yields the parsed data, empty or whitespace-only output yields
\* [] (or "" when not parsing), a non-zero exit yields None, and malformed
\* output yields a failure value that is not the value of the Empty
\* outcome.
C4_AdapterNeverRaisesEmptyApart ==
    (pc = "done" /\ u_arg.fn = "run_gcloud_command") =>
        /\ AdapterContract(u_ret.client, u_arg.proc, u_arg.check_json)
        /\ u_arg.auth # "failed" =>
              AdapterContract(u_ret.core, u_arg.proc, u_arg.check_json)

(***************************************************************************)
(* Properties of the API gate alone (SpecGate).                            *)
(***************************************************************************)
ProjectsIn(records) == {records[k].project_id : k \in 1..Len(records)}

\* The entries of a status list for one project and one capability.
EntriesFor(list, p, api_id) ==
    {k \in 1..Len(list) : list[k].project_id = p /\ list[k].api_id = api_id}

Catalog ==
    {"compute.googleapis.com", "sqladmin.googleapis.com",
     "bigquery.googleapis.com", "container.googleapis.com"}

\* C6: once InventoryService.check_api_status has returned, every project
\* that appears in the list has exactly one entry per capability of the
\* catalog, every entry is for a capability of the catalog and holds one of
\* the four statuses: no project has a partial set.
C6_CompleteOrAbsent ==
    (entry = "gate" /\ pc = "done") =>
        /\ \A p \in ProjectsIn(api_status) : \A api_id \in Catalog :
              Cardinality(EntriesFor(api_status, p, api_id)) = 1
        /\ \A k \in 1..Len(api_status) :
              /\ api_status[k].api_id \in Catalog
              /\ api_status[k].status \in {"OK", "MISSING", "CREDENTIAL_ISSUE", "ERROR"}

\* The gate returned for two discovered projects whose queries ended in a
\* mix of successes and failures.
C6_Witness ==
    /\ entry = "gate"
    /\ pc = "done"
    /\ project_id = None
    /\ ProjectsIn(api_status) = {"p1", "p2"}
    /\ \E k \in 1..Len(api_status) :
          api_status[k].project_id = "p1" /\ api_status[k].status = "OK"
    /\ \E k \in 1..Len(api_status) :
          api_status[k].project_id = "p1" /\ api_status[k].status = "ERROR"
    /\ \E k \in 1..Len(api_status) :
          api_status[k].project_id = "p2" /\ api_status[k].status = "CREDENTIAL_ISSUE"

(***************************************************************************)
(* Properties of the collectors and the orchestrators (Spec).              *)
(***************************************************************************)
\* The collector of a kind has just returned: `projects` is still the set
\* it resolved.
VmReturned ==
    \/ entry = "vm" /\ pc = "done"
    \/ entry \in {"all", "cli"} /\ pc = "bq"

BqReturned ==
    \/ entry = "bq" /\ pc = "done"
    \/ entry \in {"all", "cli"} /\ pc = "sql_gke"

Returned(kind) == IF kind = "compute" THEN VmReturned ELSE BqReturned

ResultOf(kind) == IF kind = "compute" THEN vms ELSE bigquery_datasets

\* The turn of project p ended in a failure of its own.
FailedTurn(kind, p) ==
    list_outcome[kind][p] \in {"failed", "parse_failure", "no_client"}

\* A listing query was issued for project p.
Listed(kind, p) == calls.list[kind][p] >= 1

\* C2: in discover-all mode no failure leaves a collector, and a failure
\* in the turn of one project does not keep a later project from being
\* listed: once the collector has returned, every project that follows a
\* failed one in the discovered list had a listing query issued for it,
\* unless its own client could not be created.
C2_Isolation ==
    /\ pc # "raised"
    /\ \A kind \in Kinds :
          (project_id = None /\ Returned(kind)) =>
              \A j \in 1..Len(projects) : \A k \in 1..(j - 1) :
                  FailedTurn(kind, projects[k]) =>
                      \/ Listed(kind, projects[j])
                      \/ list_outcome[kind][projects[j]] = "no_client"

\* The capability a kind's listing needs.
ApiOf(kind) ==
    IF kind = "compute" THEN "compute.googleapis.com" ELSE "bigquery.googleapis.com"

\* The status the gate recorded for a project and a capability.
StatusOf(p, api_id) ==
    LET ks == EntriesFor(api_status, p, api_id)
    IN  IF ks = {} THEN "none" ELSE api_status[CHOOSE k \in ks : TRUE].status

\* The collector's listing for the pair came back empty.
EmptyListing(kind, p) ==
    list_outcome[kind][p] \in {"failed", "parse_failure", "no_client", "empty"}

\* The lines of the collectors' logs that say a project is skipped.
SkippedLogs == {"skipping", "no_client_skipping_warned"}

\* C3: with skip_disabled_apis set, a pair whose listing came back empty
\* is recorded as skipped exactly when its capability status is not OK,
\* so that it can be told from an empty pair whose capability is OK;
\* without the flag, an empty listing is never fatal.
C3_GatingPolicy ==
    entry \in {"all", "cli"} =>
        \A kind \in Kinds : \A p \in Projects :
            (EmptyListing(kind, p) /\ pair_log[kind][p] # "none"
                                   /\ StatusOf(p, ApiOf(kind)) # "none") =>
                IF skip_disabled_apis
                THEN (pair_log[kind][p] \in SkippedLogs) <=>
                        (StatusOf(p, ApiOf(kind)) # "OK")
                ELSE pc # "raised"

\* What a collector logs for a project whose listing succeeded and holds
\* no resource.
ZeroResourcesLogs(kind) ==
    IF kind = "compute"
    THEN {VmLogSingle(<<>>), VmLogAll(<<>>, skip_disabled_apis)}
    ELSE {BqLog("p1", <<>>, skip_disabled_apis)}

\* C5: a project whose listing query failed contributes no record, and
\* what the collector leaves behind for it differs from what it leaves
\* for a project whose listing succeeded with zero resources.
C5_FailureObservable ==
    \A kind \in Kinds : \A p \in Projects :
        (list_outcome[kind][p] \in {"failed", "parse_failure"}
            /\ pair_log[kind][p] # "none") =>
                /\ \A k \in 1..Len(ResultOf(kind)) : ResultOf(kind)[k].project_id # p
                /\ pair_log[kind][p] \notin ZeroResourcesLogs(kind)

\* C7: in discover-all mode every record of the InventoryResult names a
\* project that has entries in the result's api_status.
C7_RecordsWithinApiStatus ==
    (entry = "all" /\ project_id = None /\ inventory.built) =>
        /\ ProjectsIn(inventory.vms) \subseteq ProjectsIn(inventory.api_status)
        /\ ProjectsIn(inventory.bigquery_datasets) \subseteq ProjectsIn(inventory.api_status)

\* A collector is about to run for the explicit project id.
SingleStep(kind) ==
    /\ project_id # None
    /\ pc = (IF kind = "compute" THEN "vm" ELSE "bq")

\* Whether every query counter but those of kind's listing stays put, and
\* kind's listing counter moves by n (for the explicit project id only).
ListsExactly(kind, n) ==
    /\ calls'.discovery = calls.discovery
    /\ calls'.gate = calls.gate
    /\ \A other \in Kinds \ {kind} : calls'.list[other] = calls.list[other]
    /\ \A q \in Projects :
          calls'.list[kind][q] =
              calls.list[kind][q] + (IF q = project_id THEN n ELSE 0)

CarriesProject(records) ==
    \A k \in 1..Len(records) : records[k].project_id = project_id

\* C8 as stated: with an explicit project id a collector issues no
\* discovery and no other check, issues exactly one listing query, for
\* that id, and every record it returns carries that id.
C8_ExactlyOneListing ==
    [][\A kind \in Kinds :
          SingleStep(kind) =>
              /\ ListsExactly(kind, 1)
              /\ CarriesProject(IF kind = "compute" THEN vms' ELSE bigquery_datasets')]_vars

\* C8, amended: with an explicit project id a collector issues no
\* discovery and no other check, and every record it returns carries that
\* id; collect_vm_inventory issues exactly one listing query, for that id,
\* and collect_bigquery_inventory issues one, for that id, unless no
\* BigQuery client can be created, in which case it issues none.
C8_OneListingGivenAClient ==
    [][\A kind \in Kinds :
          SingleStep(kind) =>
              /\ ListsExactly(kind,
                     IF kind = "bigquery"
                          /\ list_outcome'["bigquery"][project_id] = "no_client"
                     THEN 0 ELSE 1)
              /\ CarriesProject(IF kind = "compute" THEN vms' ELSE bigquery_datasets')]_vars

\* Both collectors ran for the explicit project p1 and returned records.
C8_Witness ==
    /\ entry = "all"
    /\ project_id = "p1"
    /\ pc = "sql_gke"
    /\ vms # <<>>
    /\ bigquery_datasets # <<>>
    /\ calls.discovery = 0
    /\ calls.list["compute"]["p1"] = 1
    /\ calls.list["bigquery"]["p1"] = 1

\* C9: in a CLI run given --project, no discovery query is ever issued,
\* the gate queries no other project, every status shown is for that
\* project, and once the gate has returned it has queried that project's
\* capabilities.
C9_CliProjectSet ==
    (entry = "cli" /\ project_id # None) =>
        /\ calls.discovery = 0
        /\ \A q \in Projects \ {project_id} : calls.gate[q] = 0
        /\ \A k \in 1..Len(api_status) : api_status[k].project_id = project_id
        /\ pc \notin {"gate", "gate_loop"} => calls.gate[project_id] = Len(required_apis)

\* A discovery query is answered, and it yields no project.
DiscoversNothing ==
    /\ calls'.discovery = calls.discovery + 1
    /\ projects' = <<>>

\* C10: in discover-all mode, when discovery yields no project, the
\* function that asked (the gate or a collector) returns an empty sequence
\* at once: it does not raise, enters no loop, and issues no capability,
\* listing, enrichment or detail query.
C10_NoProjectsNoQueries ==
    [][DiscoversNothing =>
          /\ pc' \notin {"raised", "gate_loop", "vm_loop", "bq_loop"}
          /\ calls' = [calls EXCEPT !.discovery = @ + 1]
          /\ pc = "gate" => api_status' = <<>>
          /\ pc = "vm" => vms' = <<>>
          /\ pc = "bq" => bigquery_datasets' = <<>>]_vars

\* collect_all_inventory returned after three discoveries that yielded
\* nothing: an empty result, and no query but the discoveries.
C10_Witness ==
    /\ entry = "all"
    /\ project_id = None
    /\ pc = "done"
    /\ inventory.built
    /\ inventory.api_status = <<>>
    /\ inventory.vms = <<>>
    /\ inventory.bigquery_datasets = <<>>
    /\ calls = [NoCalls EXCEPT !.discovery = 3]

\* The (project, resource id) pairs of a collector's result, in order.
ResultPairs(kind) ==
    [k \in 1..Len(ResultOf(kind)) |->
        <<ResultOf(kind)[k].project_id,
          IF kind = "compute" THEN ResultOf(kind)[k].vm_id
          ELSE ResultOf(kind)[k].dataset_id>>]

\* The (project, resource id) pairs the listings of the projects ps
\* returned, project after project, each in listing order.
RECURSIVE ListedPairs(_, _)
ListedPairs(kind, ps) ==
    IF ps = <<>> THEN <<>>
    ELSE [k \in 1..Len(listed_ids[kind][ps[1]]) |->
             <<ps[1], listed_ids[kind][ps[1]][k]>>]
         \o ListedPairs(kind, Tail(ps))

\* C11: in discover-all mode, once a collector has returned, its result is
\* the concatenation, in discovery order, of one record per resource each
\* project's listing returned, in listing order: its length is the sum of
\* the per-project resource counts, a project with no resource adds no
\* record and no error, and an earlier project's records come first.
C11_ConcatenationInDiscoveryOrder ==
    \A kind \in Kinds :
        (project_id = None /\ Returned(kind)) =>
            /\ pc # "raised"
            /\ ResultPairs(kind) = ListedPairs(kind, projects)

(***************************************************************************)
(* One call of extract_dataset_info, on the answers of get_dataset,        *)
(* list_tables and get_table.                                              *)
(***************************************************************************)
\* Table sizes either side of half a hundredth of a GB, and the 10 MB table.
TableSizes == {5368709, 5368710, 10 * 1024 * 1024}

TableLookups == {TableOk(b) : b \in TableSizes} \cup {TableFailed, TableSizeless}

DatasetArgs ==
    {[fn |-> "extract_dataset_info", project |-> "p2",
      dataset_id |-> DatasetId("p2", 1), location |-> loc, detail |-> d] :
        loc \in {"US", "unknown"},
        d \in {[detail_ok |-> TRUE, tables_ok |-> TRUE, tables |-> ts] :
                  ts \in Seqs(TableLookups, MaxTables)}
              \cup {[detail_ok |-> FALSE, tables_ok |-> TRUE, tables |-> <<>>],
                    [detail_ok |-> TRUE, tables_ok |-> FALSE, tables |-> <<>>]}}

UnitExtractDataset ==
    /\ pc = "unit"
    /\ u_arg.fn = "extract_dataset_info"
    /\ u_ret' = [tag |-> "returned",
                 info |-> extract_dataset_info(u_arg.project, u_arg.dataset_id,
                                               u_arg.location, u_arg.detail)]
    /\ pc' = "done"
    /\ UnitFrame

InitDataset ==
    /\ InitOf({"unit"})
    /\ project_id = None
    /\ u_arg \in DatasetArgs

NextDataset ==
    \/ UnitExtractDataset

SpecDataset == InitDataset /\ [][NextDataset]_vars

(***************************************************************************)
(* One call of an export function, on a filesystem where the output        *)
(* directory exists or does not.                                           *)
(***************************************************************************)
\* Record objects to export: a plain instance, names that hold a comma, a
\* quote and a line break, sentinel values; a plain dataset, one without
\* times and tables, one of 1.5 GB.
ExportVMs ==
    LET vm == extract_vm_info(RawVM("p1", 1), "p1", ProcMachineType).val[1]
    IN  {vm,
         [vm EXCEPT !.name = <<"a", ",", "b">>],
         [vm EXCEPT !.name = <<"say ", "\"", "hi", "\"">>],
         [vm EXCEPT !.name = <<"two", "\n", "lines">>, !.cpu_count = 0,
                    !.memory_mb = 0, !.os = NA, !.external_ip = NA]}

ExportDatasets ==
    LET ds == extract_dataset_info("p1", DatasetId("p1", 1), "US", DefaultDetail).val[1]
    IN  {ds,
         [ds EXCEPT !.creation_time = None, !.last_modified_time = None,
                    !.table_count = 0, !.total_size_gb = 0],
         [ds EXCEPT !.total_size_gb = 150]}

\* Sequences of one kind, and two of mixed kinds.
ExportData ==
    Seqs(ExportVMs, MaxRecords) \cup Seqs(ExportDatasets, MaxRecords) \cup
    {<<vm, ds>> : vm \in {extract_vm_info(RawVM("p1", 1), "p1", ProcMachineType).val[1]},
                  ds \in {extract_dataset_info("p1", DatasetId("p1", 1), "US",
                                               DefaultDetail).val[1]}}

ExportArgs ==
    {[fn |-> fn, data |-> data, output_dir |-> "output",
      filename_prefix |-> "inventory", writable |-> w, before |-> f] :
        fn \in {"InventoryService.export_to_csv", "InventoryService.export_to_json"},
        data \in ExportData, w \in BOOLEAN,
        f \in {EmptyFs, makedirs(EmptyFs, "output")}}
    \cup
    {[fn |-> "core.export_to_csv",
      data |-> [k \in 1..Len(data) |-> to_dict(data[k])], output_dir |-> "output",
      filename_prefix |-> "gcp_vm_inventory", writable |-> w, before |-> f] :
        data \in Seqs(ExportVMs, MaxRecords), w \in BOOLEAN,
        f \in {EmptyFs, makedirs(EmptyFs, "output")}}

ExportFrame ==
    UNCHANGED <<world, first_run, gate_log, entry, service_account_key,
                gcloud_installed, activations, authenticated, proceed,
                project_id, skip_disabled_apis, check_apis_only, format, i,
                projects, api_status, vms, bigquery_datasets, inventory,
                all_apis_ok, exported, client_project_id, gcp_bq_client,
                inv_bq_client, calls, pair_log, list_outcome, listed_ids, u_arg>>

UnitExportToCsv ==
    /\ pc = "unit"
    /\ u_arg.fn = "InventoryService.export_to_csv"
    /\ \E out \in {export_to_csv(fs, u_arg.data, u_arg.output_dir,
                                  u_arg.filename_prefix, u_arg.writable)} :
        /\ u_ret' = [tag |-> "returned", ret |-> out.ret]
        /\ fs' = out.fs
    /\ pc' = "done"
    /\ ExportFrame

UnitExportToJson ==
    /\ pc = "unit"
    /\ u_arg.fn = "InventoryService.export_to_json"
    /\ \E out \in {export_to_json(fs, u_arg.data, u_arg.output_dir,
                                   u_arg.filename_prefix, u_arg.writable)} :
        /\ u_ret' = [tag |-> "returned", ret |-> out.ret]
        /\ fs' = out.fs
    /\ pc' = "done"
    /\ ExportFrame

UnitCoreExportToCsv ==
    /\ pc = "unit"
    /\ u_arg.fn = "core.export_to_csv"
    /\ \E out \in {core_export_to_csv(fs, u_arg.data, u_arg.output_dir,
                                       u_arg.writable)} :
        /\ u_ret' = [tag |-> "returned", ret |-> out.ret]
        /\ fs' = out.fs
    /\ pc' = "done"
    /\ ExportFrame

InitExport ==
    /\ InitOf({"export"})
    /\ project_id = None
    /\ u_arg \in ExportArgs
    /\ fs = u_arg.before

NextExport ==
    \/ UnitExportToCsv
    \/ UnitExportToJson
    \/ UnitCoreExportToCsv

SpecExport == InitExport /\ [][NextExport]_vars

(***************************************************************************)
(* Sessions: the credentials and the tool a run is given.  A run of the    *)
(* CLI or of the dataset collector starts at InventoryService.__init__,    *)
(* which builds the GCPClient; a run of the legacy core module hands the   *)
(* key file to each command instead.                                       *)
(***************************************************************************)
KeyFile == "key.json"

\* How many commands a legacy session issues.
MaxCommands == 2

SessionFrame ==
    UNCHANGED <<world, first_run, gate_log, entry, service_account_key,
                gcloud_installed, proceed, project_id,
                skip_disabled_apis, check_apis_only, format, i, projects,
                api_status, vms, inventory, all_apis_ok, exported, fs,
                client_project_id, gcp_bq_client, inv_bq_client, pair_log,
                list_outcome, listed_ids, u_arg>>

\* GCPClient.__init__: what _check_gcloud_installed and
\* _authenticate_service_account return is dropped; the activation command
\* cannot be started on a host without gcloud.
Construct ==
    /\ pc = "construct"
    /\ IF service_account_key = None
       THEN /\ pc' = StartOf(entry)
            /\ UNCHANGED <<activations, authenticated>>
       ELSE IF ~gcloud_installed
       THEN /\ pc' = "raised"
            /\ UNCHANGED <<activations, authenticated>>
       ELSE \E outcome \in {"ok", "failed"} :
                /\ activations' = activations + 1
                /\ authenticated' = outcome
                /\ pc' = StartOf(entry)
    /\ UNCHANGED <<bigquery_datasets, calls, u_ret>>
    /\ SessionFrame

\* subprocess.run on a host without gcloud: FileNotFoundError, which the
\* adapter's `except subprocess.CalledProcessError` lets through.  Only
\* collect_bigquery_inventory has a handler that takes it.
CommandNotFound ==
    /\ ~gcloud_installed
    /\ \/ pc = "gate" /\ GateArgument = None
       \/ pc \in {"gate_loop", "vm", "vm_loop"}
       \/ pc = "bq" /\ project_id = None
    /\ pc' = IF pc = "bq" THEN AfterBq ELSE "raised"
    /\ bigquery_datasets' = IF pc = "bq" THEN <<>> ELSE bigquery_datasets
    /\ UNCHANGED <<activations, authenticated, calls, u_ret>>
    /\ SessionFrame

\* core.get_projects
core_get_projects(proc, auth) == core_run_gcloud_command(proc, TRUE, auth)

\* One call of core.get_projects(service_account_key): run_gcloud_command
\* runs the activation first when it is given a key, then the command.
CoreGetProjects ==
    /\ pc = "core"
    /\ activations < MaxCommands
    /\ calls.discovery < MaxCommands
    /\ IF ~gcloud_installed
       THEN /\ pc' = "raised"
            /\ UNCHANGED <<activations, authenticated, calls, u_ret>>
       ELSE \E auth \in (IF service_account_key = None THEN {"none"}
                         ELSE {"ok", "failed"}) :
            \E proc \in DiscoveryProcs :
            \E r \in {core_get_projects(proc, auth)} :
                /\ activations' = IF auth = "none" THEN activations
                                  ELSE activations + 1
                /\ authenticated' = auth
                /\ calls' = IF auth = "failed" THEN calls
                            ELSE [calls EXCEPT !.discovery = @ + 1]
                /\ u_ret' = [tag |-> "returned", core |-> r]
                /\ pc' = IF IsRaised(r) THEN "raised" ELSE "core"
    /\ UNCHANGED bigquery_datasets
    /\ SessionFrame

InitSession ==
    /\ InitState({"cli", "bq", "core"})
    /\ service_account_key \in {None, KeyFile}
    /\ gcloud_installed \in BOOLEAN
    /\ activations = 0
    /\ authenticated = "none"
    /\ pc = IF entry = "core" THEN "core" ELSE "construct"
    /\ world = AnyWorld
    /\ first_run = NotYet
    /\ u_arg = NoArg

NextSession ==
    \/ Construct
    \/ CommandNotFound
    \/ CoreGetProjects
    \/ GateDiscover
    \/ GateProject
    \/ CliDisplay
    \/ CliPrompt
    \/ VmSingle
    \/ VmDiscover
    \/ VmProject
    \/ BqSingle
    \/ BqDiscover
    \/ BqProject
    \/ SqlGke

SpecSession == InitSession /\ [][NextSession]_vars

(***************************************************************************)
(* Two runs on one instance: collect_bigquery_inventory is called, and     *)
(* called again on the same InventoryService, in a world whose answers are *)
(* fixed.  The instance keeps GCPClient.project_id and the two cached      *)
(* BigQuery clients; the list the collector builds is local to the call.   *)
(***************************************************************************)
Worlds ==
    [fixed : {TRUE},
     discovery : DiscoveryProcs,
     created : [Projects -> BOOLEAN],
     listing : [Projects -> DatasetListings(None)]]

\* The second call of collect_bigquery_inventory on the instance.
RunAgain ==
    /\ pc = "done"
    /\ ~first_run.done
    /\ first_run' = [done |-> TRUE, bigquery_datasets |-> bigquery_datasets]
    /\ bigquery_datasets' = <<>>
    /\ projects' = <<>>
    /\ i' = 0
    /\ pc' = "bq"
    /\ UNCHANGED <<world, gate_log, entry, service_account_key, gcloud_installed,
                   activations, authenticated, proceed, project_id,
                   skip_disabled_apis, check_apis_only, format, api_status, vms,
                   inventory, all_apis_ok, exported, fs, client_project_id,
                   gcp_bq_client, inv_bq_client, calls, pair_log, list_outcome,
                   listed_ids, u_arg, u_ret>>

InitAgain ==
    /\ InitState({"bq"})
    /\ service_account_key = None
    /\ gcloud_installed = TRUE
    /\ activations = 0
    /\ authenticated = "none"
    /\ pc = "bq"
    /\ world \in Worlds
    /\ first_run = NotYet
    /\ u_arg = NoArg

NextAgain ==
    \/ BqSingle
    \/ BqDiscover
    \/ BqProject
    \/ RunAgain

SpecAgain == InitAgain /\ [][NextAgain]_vars

(***************************************************************************)
(* Properties of one extraction (SpecExtract).                             *)
(***************************************************************************)
Extracted == pc = "done" /\ u_arg.fn = "extract_vm_info"

Has(rec, f) == f \in DOMAIN rec

\* The record's first network interface, first access configuration and
\* first boot-flagged disk, as a list of at most one.
FirstInterface(vm) ==
    IF Has(vm, "networkInterfaces") /\ vm.networkInterfaces # <<>>
    THEN <<vm.networkInterfaces[1]>> ELSE <<>>

FirstAccessConfig(vm) ==
    IF FirstInterface(vm) # <<>> /\ Has(FirstInterface(vm)[1], "accessConfigs")
                                 /\ FirstInterface(vm)[1].accessConfigs # <<>>
    THEN <<FirstInterface(vm)[1].accessConfigs[1]>> ELSE <<>>

BootDisk(vm) ==
    IF ~Has(vm, "disks") THEN <<>>
    ELSE LET boots == {k \in 1..Len(vm.disks) :
                          Has(vm.disks[k], "boot") /\ vm.disks[k].boot}
         IN  IF boots = {} THEN <<>>
             ELSE <<vm.disks[CHOOSE k \in boots : \A j \in boots : k <= j]>>

\* C12: whatever optional paths a raw record lacks, extract_vm_info does
\* not raise, and every attribute whose path is absent holds its sentinel:
\* N/A for a text attribute (for machine_type, N/A or unknown), 0 for
\* cpu_count and memory_mb.
C12_SentinelForAbsentPath ==
    Extracted =>
        /\ ~IsRaised(u_ret.info)
        /\ LET vm == u_arg.vm
               r == u_ret.info.val[1]
           IN  /\ ~Has(vm, "id") => r.vm_id = NA
               /\ ~Has(vm, "name") => r.name = NA
               /\ ~Has(vm, "status") => r.status = NA
               /\ ~Has(vm, "creationTimestamp") => r.creation_timestamp = NA
               /\ ~Has(vm, "zone") => r.zone = NA
               /\ ~Has(vm, "machineType") =>
                     r.machine_type \in {NA, Unknown} /\ r.cpu_count = 0 /\ r.memory_mb = 0
               /\ ~Has(vm, "networkInterfaces") =>
                     r.network = NA /\ r.internal_ip = NA /\ r.external_ip = NA
               /\ \A ni \in {FirstInterface(vm)[k] : k \in 1..Len(FirstInterface(vm))} :
                     /\ ~Has(ni, "network") => r.network = NA
                     /\ ~Has(ni, "networkIP") => r.internal_ip = NA
                     /\ ~Has(ni, "accessConfigs") => r.external_ip = NA
               /\ \A ac \in {FirstAccessConfig(vm)[k] : k \in 1..Len(FirstAccessConfig(vm))} :
                     ~Has(ac, "natIP") => r.external_ip = NA
               /\ ~Has(vm, "disks") => r.os = NA
               /\ \A d \in {BootDisk(vm)[k] : k \in 1..Len(BootDisk(vm))} :
                     ~Has(d, "licenses") => r.os = NA

\* The part of a slash-delimited path after its last slash.
FinalSegment(path) ==
    LET slashes == {k \in 1..Len(path) : path[k] = "/"}
    IN  IF slashes = {} THEN path
        ELSE SubSeq(path, (CHOOSE k \in slashes : \A j \in slashes : j <= k) + 1,
                    Len(path))

HasSlash(path) == \E k \in 1..Len(path) : path[k] = "/"

\* The first license path of the boot disk, as a list of at most one.
FirstLicense(vm) ==
    IF BootDisk(vm) # <<>> /\ Has(BootDisk(vm)[1], "licenses")
                           /\ BootDisk(vm)[1].licenses # <<>>
    THEN <<BootDisk(vm)[1].licenses[1]>> ELSE <<>>

\* zone, machine_type and network are the final segments of their paths.
PathAttributesAreFinalSegments ==
    LET vm == u_arg.vm
        r == u_ret.info.val[1]
    IN  /\ Has(vm, "zone") => r.zone = FinalSegment(vm.zone)
        /\ Has(vm, "machineType") => r.machine_type = FinalSegment(vm.machineType)
        /\ \A ni \in {FirstInterface(vm)[k] : k \in 1..Len(FirstInterface(vm))} :
              Has(ni, "network") => r.network = FinalSegment(ni.network)

\* C13 as stated: zone, machine_type and network are the final segments of
\* the raw zone, machineType and first interface's network paths, and os
\* is the final segment of the boot disk's first license path.
C13_FinalSegments ==
    Extracted =>
        /\ PathAttributesAreFinalSegments
        /\ \A lic \in {FirstLicense(u_arg.vm)[k] : k \in 1..Len(FirstLicense(u_arg.vm))} :
              u_ret.info.val[1].os = FinalSegment(lic)

\* C13, amended: zone, machine_type and network are the final segments of
\* their raw paths; os is the final segment of the boot disk's first
\* license path when that path holds a slash, and N/A when it holds none.
C13_FinalSegmentsOfPaths ==
    Extracted =>
        /\ PathAttributesAreFinalSegments
        /\ \A lic \in {FirstLicense(u_arg.vm)[k] : k \in 1..Len(FirstLicense(u_arg.vm))} :
              u_ret.info.val[1].os = IF HasSlash(lic) THEN FinalSegment(lic) ELSE NA

\* A whole record was normalized: zone us-central1-a, machine type
\* n1-standard-2, network net1, os debian-1.
C13_Witness ==
    /\ Extracted
    /\ Has(u_arg.vm, "zone")
    /\ u_arg.vm.zone = RawVM("p1", 1).zone
    /\ u_ret.info.val[1].zone = <<"us-central1-a">>
    /\ u_ret.info.val[1].machine_type = <<"n1-standard-2">>
    /\ u_ret.info.val[1].network = <<"net", "1">>
    /\ u_ret.info.val[1].os = <<"debian-", "1">>

\* The query ended without a machine type to read.
NothingDescribed(proc) ==
    \/ proc.rc # 0
    \/ \A k \in 1..Len(proc.stdout) : IsWs(proc.stdout[k])

FirstOnly(vm) ==
    [f \in DOMAIN vm |->
        CASE f = "networkInterfaces" ->
                [k \in 1..Len(FirstInterface(vm)) |->
                    IF Has(vm.networkInterfaces[1], "accessConfigs")
                    THEN [vm.networkInterfaces[1] EXCEPT
                             !.accessConfigs = FirstAccessConfig(vm)]
                    ELSE vm.networkInterfaces[1]]
          [] f = "disks" -> BootDisk(vm)
          [] OTHER -> vm[f]]

\* C15: network, internal_ip and external_ip are those of the first
\* interface and its first access configuration, os is that of the first
\* boot-flagged disk, whatever other interfaces, configurations and disks
\* the record holds; os is N/A when no disk is boot-flagged, and the
\* network attributes are N/A when there is no interface (external_ip
\* when there is no access configuration).
C15_FirstInterfaceAndBootDisk ==
    Extracted =>
        LET vm == u_arg.vm
            r == u_ret.info.val[1]
            first == extract_vm_info(FirstOnly(vm), u_arg.project, u_arg.proc).val[1]
        IN  /\ r.network = first.network
            /\ r.internal_ip = first.internal_ip
            /\ r.external_ip = first.external_ip
            /\ r.os = first.os
            /\ BootDisk(vm) = <<>> => r.os = NA
            /\ FirstInterface(vm) = <<>> =>
                  r.network = NA /\ r.internal_ip = NA /\ r.external_ip = NA
            /\ FirstAccessConfig(vm) = <<>> => r.external_ip = NA

\* A record with two interfaces whose first has two access
\* configurations, and two disks of which only the second is a boot disk.
C15_Witness ==
    /\ Extracted
    /\ Has(u_arg.vm, "networkInterfaces")
    /\ Len(u_arg.vm.networkInterfaces) = 2
    /\ Len(FirstAccessConfig(u_arg.vm)) = 1
    /\ Len(u_arg.vm.networkInterfaces[1].accessConfigs) = 2
    /\ Has(u_arg.vm, "disks")
    /\ u_arg.vm.disks = <<RawDisk(1, FALSE), RawDisk(2, TRUE)>>
    /\ u_ret.info.val[1].network = <<"net", "1">>
    /\ u_ret.info.val[1].external_ip = <<"34.0.0.", "1">>
    /\ u_ret.info.val[1].os = <<"debian-", "2">>

(***************************************************************************)
(* Properties of one dataset extraction (SpecDataset).                     *)
(***************************************************************************)
DatasetExtracted == pc = "done" /\ u_arg.fn = "extract_dataset_info"

\* get_dataset and list_tables answered: the dataset's tables are listed.
TablesListed == u_arg.detail.detail_ok /\ u_arg.detail.tables_ok

\* The bytes of the lookups that succeeded and reported a size.
RECURSIVE SizedBytes(_)
SizedBytes(lookups) ==
    IF lookups = <<>> THEN 0
    ELSE (IF lookups[1].ok /\ lookups[1] # TableSizeless THEN lookups[1].numBytes ELSE 0)
         + SizedBytes(Tail(lookups))

\* Whether h hundredths is bytes / 2^30 rounded to two decimals: no other
\* number of hundredths is nearer.
IsRounded(h, bytes) ==
    LET Dist(g) == IF bytes * 25 >= g * 268435456 THEN bytes * 25 - g * 268435456
                   ELSE g * 268435456 - bytes * 25
    IN  h >= 0 /\ Dist(h) <= Dist(h + 1) /\ (h > 0 => Dist(h) <= Dist(h - 1))

\* C16: for every dataset whose tables are listed, extract_dataset_info
\* produces a record; its table_count is the number of listed tables,
\* those whose lookup failed or reported no size included; its
\* total_size_gb is the sum of the sizes of the tables whose lookup
\* succeeded (failed and size-less ones counting 0) divided by 2^30 and
\* rounded to two decimals, so that 10,485,760 bytes give 0.01.
C16_DatasetAggregate ==
    (DatasetExtracted /\ TablesListed) =>
        /\ u_ret.info.tag = "obj"
        /\ u_ret.info.val[1].table_count = Len(u_arg.detail.tables)
        /\ IsRounded(u_ret.info.val[1].total_size_gb, SizedBytes(u_arg.detail.tables))
        /\ SizedBytes(u_arg.detail.tables) = 10485760 => u_ret.info.val[1].total_size_gb = 1

(***************************************************************************)
(* Every listed resource is recorded once (Spec).                          *)
(***************************************************************************)
\* How many records of the collector's result stand for resource id of
\* project p.
RecordsFor(kind, p, id) ==
    Cardinality({j \in 1..Len(ResultOf(kind)) : ResultPairs(kind)[j] = <<p, id>>})

\* C17: every resource a collector's listing query returned has exactly
\* one record in the collector's result of that run: none is dropped, a
\* dataset whose detail or table lookup fails included, and none is
\* recorded twice.
C17_OneRecordPerListedResource ==
    \A kind \in Kinds :
        Returned(kind) =>
            \A p \in Projects :
                \A k \in 1..Len(listed_ids[kind][p]) :
                    RecordsFor(kind, p, listed_ids[kind][p][k]) = 1

(***************************************************************************)
(* Properties of one export call (SpecExport).                             *)
(***************************************************************************)
ExportReturned == pc = "done" /\ entry = "export"

\* C18: every export operation called with an empty record sequence
\* returns None and writes nothing to the filesystem: it creates neither
\* a file nor the output directory.
C18_EmptyExportWritesNothing ==
    (ExportReturned /\ u_arg.data = <<>>) =>
        /\ u_ret.ret = PyNone
        /\ fs = u_arg.before

\* csv.reader.  A position is outside quotes when an even number of
\* quote characters precede it.
Outside(text, k) == Cardinality({j \in 1..(k - 1) : text[j] = "\""}) % 2 = 0

\* The n-th smallest member of a set of positions.
Nth(S, n) == CHOOSE x \in S : Cardinality({y \in S : y < x}) = n - 1

RECURSIVE Undouble(_)
Undouble(field) ==
    IF field = <<>> THEN <<>>
    ELSE IF Len(field) > 1 /\ field[1] = "\"" /\ field[2] = "\""
    THEN <<"\"">> \o Undouble(SubSeq(field, 3, Len(field)))
    ELSE <<field[1]>> \o Undouble(Tail(field))

Unquote(field) ==
    IF field # <<>> /\ field[1] = "\""
    THEN Undouble(SubSeq(field, 2, Len(field) - 1))
    ELSE field

\* The fields of one line: what lies between the commas outside quotes.
CsvParseLine(line) ==
    LET commas == {k \in 1..Len(line) : line[k] = "," /\ Outside(line, k)}
        n == Cardinality(commas)
    IN  [j \in 1..(n + 1) |->
            Unquote(SubSeq(line,
                           IF j = 1 THEN 1 ELSE Nth(commas, j - 1) + 1,
                           IF j = n + 1 THEN Len(line) ELSE Nth(commas, j) - 1))]

\* The rows of a text: its lines, ended by "\r\n" outside quotes.
CsvParse(text) ==
    LET ends == {k \in 1..(Len(text) - 1) :
                    text[k] = "\r" /\ text[k + 1] = "\n" /\ Outside(text, k)}
    IN  [r \in 1..Cardinality(ends) |->
            CsvParseLine(SubSeq(text,
                                IF r = 1 THEN 1 ELSE Nth(ends, r - 1) + 2,
                                Nth(ends, r) - 1))]

\* The record objects an export call was given.
ExportObjects ==
    [k \in 1..Len(u_arg.data) |->
        IF "keys" \in DOMAIN u_arg.data[k] THEN u_arg.data[k].vals ELSE u_arg.data[k]]

DeclaredFields(item) ==
    IF ClassOf(item) = "VMInfo" THEN VMInfoFields ELSE BigQueryDatasetInfoFields

\* A CSV export of a non-empty sequence of one kind, the file writable.
CsvExported ==
    /\ ExportReturned
    /\ u_arg.fn \in {"InventoryService.export_to_csv", "core.export_to_csv"}
    /\ u_arg.data # <<>>
    /\ u_arg.writable
    /\ \A j, k \in 1..Len(ExportObjects) :
          ClassOf(ExportObjects[j]) = ClassOf(ExportObjects[k])

\* C19: for every non-empty sequence of records of one kind, export_to_csv
\* writes a file; parsed again, its first row is the first record's
\* attribute names in declared order, it has one more row per record, in
\* input order, and every field is the textual encoding of the record's
\* value of that attribute.
C19_CsvRoundTrip ==
    CsvExported =>
        /\ u_ret.ret.tag = "str"
        /\ u_ret.ret.val[1] \in DOMAIN fs.files
        /\ LET rows == CsvParse(fs.files[u_ret.ret.val[1]])
               names == DeclaredFields(ExportObjects[1])
           IN  /\ Len(rows) = Len(ExportObjects) + 1
               /\ rows[1] = [j \in 1..Len(names) |-> <<names[j]>>]
               /\ \A k \in 1..Len(ExportObjects) :
                     rows[k + 1] = [j \in 1..Len(names) |->
                                       Str(names[j], ExportObjects[k][names[j]])]

\* Two instances were exported, one named with a comma and one with quotes.
C19_Witness ==
    /\ CsvExported
    /\ u_arg.fn = "InventoryService.export_to_csv"
    /\ Len(u_arg.data) = 2
    /\ ClassOf(u_arg.data[1]) = "VMInfo"
    /\ u_arg.data[1].name = <<"a", ",", "b">>
    /\ u_arg.data[2].name = <<"say ", "\"", "hi", "\"">>
    /\ u_ret.ret.tag = "str"

(***************************************************************************)
(* The export calls of the command line (Spec).                            *)
(***************************************************************************)
KeySet(dict) == {dict.keys[k] : k \in 1..Len(dict.keys)}

\* C20: in every export call cli.main issues, the records passed are all
\* of one kind and have the same attribute names, whatever sentinel or
\* enriched values they hold.
C20_HomogeneousExportCalls ==
    \A call \in exported :
        \A j, k \in 1..Len(call.data) :
            /\ ClassOf(call.data[j]) = ClassOf(call.data[k])
            /\ KeySet(AsDict(call.data[j])) = KeySet(AsDict(call.data[k]))

\* An export call was given an enriched instance and one with sentinel
\* processor and memory values.
C20_Witness ==
    \E call \in exported :
        /\ call.prefix = "vm_inventory"
        /\ Len(call.data) = 2
        /\ call.data[1].cpu_count = 2
        /\ call.data[2].cpu_count = 0

(***************************************************************************)
(* C21..C23: credentials and the required tool.                            *)
(***************************************************************************)
\* No query that goes through gcloud has been issued.
NoGcloudCall ==
    /\ calls.discovery = 0
    /\ calls.enrich = 0
    /\ \A p \in Projects : calls.gate[p] = 0 /\ calls.list["compute"][p] = 0

\* The session of a GCPClient, whose activation is its first step.
ClientSession == entry \in {"cli", "bq"}

\* C21: once the activation of a configured key file has failed, the run
\* is over: no capability check, no project discovery, no listing and no
\* enrichment query is issued with those credentials afterwards.
C21_ActivationFailureIsFatal ==
    (ClientSession /\ authenticated = "failed") => NoGcloudCall

\* C22: on a host without gcloud the run ends with an error before any
\* capability check, discovery or collection query is issued: no query is
\* counted and the run never comes to a normal end.
C22_MissingToolIsFatal ==
    ~gcloud_installed => (calls = NoCalls /\ pc # "done")

\* C23: with a key file configured the activation is run exactly once,
\* before the first query, however many commands follow; without a key
\* file no activation is ever run.
C23_ActivationOnce ==
    IF service_account_key = None
    THEN activations = 0
    ELSE /\ activations <= 1
         /\ calls # NoCalls => activations = 1

(***************************************************************************)
(* C24..C25: the phases of an orchestrated run and the confirmation.       *)
(***************************************************************************)
Orchestrated == entry \in {"all", "cli"}

\* The run is still in the gate or, in the CLI, at its summary or prompt.
BeforeCollection == pc \in {"gate", "gate_loop", "cli_display", "cli_prompt"}

CollectingVms == pc \in {"vm", "vm_loop"}

CollectingDatasets == pc \in {"bq", "bq_loop"}

\* C24: in an orchestrated run a pair is listed only after all the
\* capabilities of its project were checked and the gate (in the CLI the
\* summary too) is over; datasets are listed only after the collection of
\* compute instances has finished; the records of a kind are exported, and
\* the result aggregated, only after the collection of that kind finished.
C24_PhaseOrder ==
    Orchestrated =>
        /\ \A kind \in Kinds : \A p \in Projects :
              Listed(kind, p) =>
                  /\ calls.gate[p] = Len(required_apis)
                  /\ ~BeforeCollection
        /\ \A p \in Projects : Listed("bigquery", p) => ~CollectingVms
        /\ \A call \in exported :
              /\ ~CollectingVms
              /\ call.prefix = Prefix("bigquery") => ~CollectingDatasets
        /\ inventory.built => pc = "done"

\* C25: in a CLI run whose summary has been displayed: when every status
\* is OK no confirmation is asked; when some status is not OK and
\* skip_disabled_apis is set, no confirmation is asked and no pair whose
\* status is not OK is listed; when some status is not OK and the flag is
\* not set, a pair is listed only after the user answered yes.
C25_ConfirmationPolicy ==
    (entry = "cli" /\ pc \notin {"gate", "gate_loop", "cli_display", "raised"}) =>
        /\ all_apis_ok => proceed = None
        /\ (~all_apis_ok /\ skip_disabled_apis) =>
              /\ pc # "cli_prompt"
              /\ proceed = None
              /\ \A kind \in Kinds : \A p \in Projects :
                    Listed(kind, p) => StatusOf(p, ApiOf(kind)) = "OK"
        /\ (~all_apis_ok /\ ~skip_disabled_apis) =>
              \A kind \in Kinds : \A p \in Projects :
                    Listed(kind, p) => proceed = "y"

(***************************************************************************)
(* C26: the queries of the API gate (SpecGate).                            *)
(***************************************************************************)
\* The positions in the gate's log of the queries for one pair.
QueriesFor(p, api_id) ==
    {k \in 1..Len(gate_log) :
        gate_log[k].project_id = p /\ gate_log[k].api_id = api_id}

FailureStatuses == {"ERROR", "CREDENTIAL_ISSUE"}

\* C26: the gate never queries a pair twice, and once it returned it has
\* queried every pair of its project set exactly once; each query yields
\* one status, for its own pair, which is ERROR or CREDENTIAL_ISSUE
\* exactly when that query failed, whatever the other queries answered;
\* a failed query does not keep the later ones from being issued.
C26_OneQueryPerPair ==
    entry = "gate" =>
        /\ \A p \in Projects : \A api_id \in Catalog :
              Cardinality(QueriesFor(p, api_id)) <= 1
        /\ Len(api_status) = Len(gate_log)
        /\ \A k \in 1..Len(gate_log) :
              /\ api_status[k].project_id = gate_log[k].project_id
              /\ api_status[k].api_id = gate_log[k].api_id
              /\ api_status[k].status \in FailureStatuses
                    <=> Failed(gate_log[k].proc)
        /\ pc = "done" =>
              \A m \in 1..Len(projects) : \A api_id \in Catalog :
                  Cardinality(QueriesFor(projects[m], api_id)) = 1

\* The gate returned for two projects; the first query of the first
\* project failed and the queries after it were issued and answered.
C26_Witness ==
    /\ entry = "gate"
    /\ pc = "done"
    /\ Len(projects) = 2
    /\ Len(gate_log) = 2 * Len(required_apis)
    /\ Failed(gate_log[1].proc)
    /\ api_status[1].status = "ERROR"
    /\ \A k \in 2..Len(gate_log) : api_status[k].status = "OK"

(***************************************************************************)
(* C27..C28: what the cached BigQuery clients do to later turns and runs.  *)
(***************************************************************************)
\* C27: a second run of the dataset collector on the same instance, the
\* ControlPlane answering as in the first, returns the records the
\* first run returned.
C27_SecondRunSameRecords ==
    (first_run.done /\ pc = "done") =>
        bigquery_datasets = first_run.bigquery_datasets

\* C28: in discover-all mode every dataset recorded with project id P was
\* listed through a client created for P, and after the turn of P the
\* collector's client is one created for P or none.
C28_ClientPerProject ==
    (entry \in {"bq", "all", "cli"} /\ project_id = None) =>
        /\ \A k \in 1..Len(bigquery_datasets) :
              bigquery_datasets[k].dataset_id.owner = bigquery_datasets[k].project_id
        /\ \A p \in Projects :
              list_outcome["bigquery"][p] \notin {"none", "no_client"}
                  => p \in {listed_ids["bigquery"][p][k].owner :
                              k \in 1..Len(listed_ids["bigquery"][p])}
                     \/ listed_ids["bigquery"][p] = <<>>

(***************************************************************************)
(* C29: --check-apis-only.                                                 *)
(***************************************************************************)
\* C29: a CLI run with --check-apis-only goes from the gate to the summary
\* and ends there: it issues no listing, enrichment or detail query, asks
\* for no confirmation and writes no file; when it has ended normally the
\* summary of the statuses the gate returned has been displayed.
C29_CheckApisOnly ==
    (entry = "cli" /\ check_apis_only) =>
        /\ pc \in {"gate", "gate_loop", "cli_display", "done", "raised"}
        /\ \A kind \in Kinds : \A p \in Projects : ~Listed(kind, p)
        /\ calls.enrich = 0
        /\ calls.detail = 0
        /\ proceed = None
        /\ exported = {}
        /\ fs = EmptyFs
        /\ pc = "done" => all_apis_ok = display_api_status(api_status)

\* Such a run has ended after a summary in which a status was not OK.
C29_Witness ==
    /\ entry = "cli"
    /\ check_apis_only
    /\ pc = "done"
    /\ Len(api_status) = 2 * Len(required_apis)
    /\ ~all_apis_ok
    /\ \E k \in 1..Len(api_status) : api_status[k].status = "MISSING"

(***************************************************************************)
(* C30: what InventoryService's exports return (SpecExport).               *)
(***************************************************************************)
ServiceExportReturned ==
    /\ ExportReturned
    /\ u_arg.fn \in {"InventoryService.export_to_csv",
                     "InventoryService.export_to_json"}

\* The file the call was to write.
ExportFile ==
    FileName(u_arg.output_dir, u_arg.filename_prefix,
             IF u_arg.fn = "InventoryService.export_to_csv" THEN "csv" ELSE "json")

\* C30: export_to_csv and export_to_json return the path of the file
\* when the file is there with a row (an object) for every record, and
\* when they return None the files are those that were there before the
\* call: nothing new, nothing partly written.
C30_PathIffWritten ==
    ServiceExportReturned =>
        /\ u_ret.ret # PyNone =>
              /\ u_ret.ret = PyStr(<<ExportFile>>)
              /\ ExportFile \in DOMAIN fs.files
        /\ u_ret.ret = PyNone => fs.files = u_arg.before.files

=============================================================================
